---- MODULE Spec2Model ----
(***************************************************************************)
(* Model of FileListProcessor_Semantic_Segmentation, the windowed          *)
(* crop-sampling and transform pipeline of                                 *)
(* deeplearningtools/DataProvider_input_pipeline.py.                       *)
(*                                                                         *)
(* Rational parameters (patch_ratio_vs_input, image_area_coverage_factor,  *)
(* classes_entropy_threshold) are records [n, d] standing for n/d; the     *)
(* values used are dyadic, so the float arithmetic of the source is exact  *)
(* on them.                                                                *)
(***************************************************************************)
EXTENDS Integers, Sequences, FiniteSets, TLC

VARIABLES
  args,           \* the arguments the caller passes to __init__
  images,         \* the files on disk: file id -> [H, W, labels, nanAt]
  callerFilters,  \* the caller's additionnal_filters list object
  self,           \* the fields of the pipeline object
  pc,             \* "new", "configured", "streaming", "exhausted", "error"
  raised,         \* the exception that ended construction or the stream
  srcPos,         \* elements already drawn from from_tensor_slices().repeat()
  shuffleBuf,     \* content of the Dataset.shuffle buffer
  descStream,     \* descriptors emitted by the filenames dataset so far
  slots,          \* interleave cycle: one per-file crops dataset per slot
  cycleIdx,       \* interleave cycle index
  inflight,       \* crops inside the parallel map(_image_transform)
  rngCount,       \* seeds issued so far by self.rng
  batchbuf,       \* elements gathered by Dataset.batch for the next batch
  prefetch,       \* batches waiting in the final prefetch buffer
  producerDone,   \* the batch stage has reached the end of its input
  out,            \* batches delivered to the consumer
  lastFilter,     \* the crop _crop_filter saw last and its verdict
  history         \* outputs of the earlier pipelines built from the same args

vars == <<args, images, callerFilters, self, pc, raised, srcPos, shuffleBuf,
          descStream, slots, cycleIdx, inflight, rngCount, batchbuf,
          prefetch, producerDone, out, lastFilter, history>>

----------------------------------------------------------------------------
(* Bounds of the explored inputs *)

MaxDim == 5          \* image heights and widths range over 2..MaxDim
MaxEpoch == 2        \* nbEpoch ranges over 1..MaxEpoch
MaxPatches == 2      \* max_patches_per_image ranges over 1..MaxPatches
MaxParallel == 2     \* concurrent calls of the map(_image_transform) stage
MaxPrefetch == 1     \* capacity tf.data.AUTOTUNE gives the final prefetch
MaxRuns == 2         \* pipelines built one after the other from the same args
MaxNamedFiles == 8   \* files the caller can name
MaxPath == 3         \* paths hold 1..MaxPath characters

----------------------------------------------------------------------------
(* Generic helpers *)

Min(a, b) == IF a < b THEN a ELSE b

Max(a, b) == IF a > b THEN a ELSE b

Rat(n, d) == [n |-> n, d |-> d]

\* None given for a float parameter
None == Rat(0, 0)

\* int(x) of python / tf.cast(x, tf.int32): truncation toward zero of n/d, d > 0
Trunc(n, d) == IF n >= 0 THEN n \div d ELSE -((-n) \div d)

SeqToSet(s) == {s[i] : i \in 1..Len(s)}

----------------------------------------------------------------------------
(* Geometry: _generate_crops, 'prepare_crops_bbox' *)

\* tf.range(0, limit, delta, dtype=tf.int32): the kernel rejects delta = 0 and
\* a limit on the wrong side of the start; otherwise 0, delta, 2*delta, ...
\* strictly before limit.
RangeFails(limit, delta) ==
  \/ delta = 0
  \/ delta > 0 /\ limit < 0
  \/ delta < 0 /\ limit > 0

\* the range with its limit included
RangeInclusive(limit, delta) ==
  IF delta > 0
    THEN [k \in 1..((limit \div delta) + 1) |-> (k - 1) * delta]
    ELSE [k \in 1..(((-limit) \div (-delta)) + 1) |-> (k - 1) * delta]

Range(limit, delta) ==
  IF delta > 0
    THEN [k \in 1..((limit + delta - 1) \div delta) |-> (k - 1) * delta]
    ELSE [k \in 1..(((-limit) + (-delta) - 1) \div (-delta)) |-> (k - 1) * delta]

\* tf.meshgrid(top_coord, left_coord) followed by the two reshape(.., [-1]):
\* row-major flattening of a (len(left), len(top)) grid, the top coordinate
\* varying fastest; boxes_raw stacks [top, left].
MeshBoxes(top_coord, left_coord) ==
  LET nt == Len(top_coord)
      nl == Len(left_coord)
  IN [k \in 1..(nt * nl) |->
        [top |-> top_coord[((k - 1) % nt) + 1],
         left |-> left_coord[((k - 1) \div nt) + 1]]]

\* the regular grid with the last position of each axis included
RegularBoxesInclusive(height, width, patchSize, radius_of_view) ==
  MeshBoxes(RangeInclusive(height - patchSize, patchSize - 2 * radius_of_view),
            RangeInclusive(width - patchSize, patchSize - 2 * radius_of_view))

\* regular grid planned when shuffle_samples is not True
RegularBoxes(height, width, patchSize, radius_of_view) ==
  MeshBoxes(Range(height - patchSize, patchSize - 2 * radius_of_view),
            Range(width - patchSize, patchSize - 2 * radius_of_view))

RegularFails(height, width, patchSize, radius_of_view) ==
  \/ RangeFails(height - patchSize, patchSize - 2 * radius_of_view)
  \/ RangeFails(width - patchSize, patchSize - 2 * radius_of_view)

\* the count rounded to the nearest integer instead of truncated
NbPatchesRounded(height, width, patchSize, coverage, max_patches) ==
  Min((2 * coverage.n * height * width + coverage.d * patchSize * patchSize)
        \div (2 * coverage.d * patchSize * patchSize),
      max_patches)

\* self.nbPatches in random mode: cast to int32 of
\* image_area_coverage_factor*height*width/patchSize^2, then tf.minimum with
\* max_patches_per_image.
NbPatches(height, width, patchSize, coverage, max_patches) ==
  Min(Trunc(coverage.n * height * width, coverage.d * patchSize * patchSize),
      max_patches)

\* tf.random.uniform(shape, 0, maxval, dtype=tf.int32) draws in [0, maxval);
\* the kernel accepts an empty output whatever the range and otherwise
\* requires 0 < maxval.
UniformFails(count, maxval) == count > 0 /\ maxval <= 0

UniformRange(maxval) == 0..(maxval - 1)

----------------------------------------------------------------------------
(* Images and crops.  A tensor is [h, w, px] with px[<<r, c>>] the sequence *)
(* of its channel values at row r, column c (1-based).  A channel value     *)
(* keeps the file position it was read from, its number, whether it is NaN, *)
(* its dtype and the photometric operations applied to it so far.           *)

UniformLevels == 4   \* distinct values of a stateless uniform draw in the model

LabelAt(img, r, c) ==
  IF img.labels = "const" THEN 1
  ELSE IF img.labels = "halves" THEN (IF 2 * c > img.W THEN 1 ELSE 0)
  ELSE IF img.labels = "corner" THEN (IF r = 1 /\ c = 1 THEN 1 ELSE 0)
  ELSE (r + c) % 2

ChannelValue(f, r, c, ch, isRef, dt) ==
  [f |-> f, r |-> r, c |-> c, ch |-> ch,
   val |-> IF isRef THEN LabelAt(images[f], r, c) ELSE 10 * r + c,
   nan |-> images[f].nanAt = <<r, c, ch>>,
   dtype |-> dt, ops |-> <<>>]

Tensor(h, w, px) == [h |-> h, w |-> w, px |-> px]

Positions(t) == (1..t.h) \X (1..t.w)

Depth(t) == IF t.h = 0 \/ t.w = 0 THEN 0 ELSE Len(t.px[<<1, 1>>])

\* tf.slice(t, begin=[0,0,begin], size=[-1,-1,size])
SliceChannels(t, begin, size) ==
  Tensor(t.h, t.w, [p \in Positions(t) |-> SubSeq(t.px[p], begin + 1, begin + size)])

\* tf.concat([a, b], axis=2)
ConcatChannels(a, b) ==
  Tensor(a.h, a.w, [p \in Positions(a) |-> a.px[p] \o b.px[p]])

\* tf.cast(t, dtype)
Cast(t, dt) == Tensor(t.h, t.w, [p \in Positions(t) |-> [k \in 1..Len(t.px[p]) |->
      LET v == t.px[p][k] IN [v EXCEPT !.dtype = dt]]])

AnyNan(t) == \E p \in Positions(t) : \E k \in 1..Len(t.px[p]) : t.px[p][k].nan

\* The composite raw+reference image the image_loading_fn returns: the raw
\* channels of file f first, the reference channel(s) last, read from file g
\* when raw and reference are separate files (g = 0: from f itself).
\* py_function readers return tf.float32, tf.image.decode_png returns uint8.
load_image(f, g, raw_depth, reference_depth, dt) ==
  Tensor(images[f].H, images[f].W,
         [p \in (1..images[f].H) \X (1..images[f].W) |->
            [k \in 1..(raw_depth + reference_depth) |->
               IF k <= raw_depth THEN ChannelValue(f, p[1], p[2], k, FALSE, dt)
               ELSE IF g = 0 THEN ChannelValue(f, p[1], p[2], k, TRUE, dt)
               ELSE ChannelValue(g, p[1], p[2], k - raw_depth, TRUE, dt)]])

\* tf.image.crop_to_bounding_box(input_image, top, left, patchSize, patchSize)
get_crop(input_image, boxe, patchSize) ==
  Tensor(patchSize, patchSize,
         [p \in (1..patchSize) \X (1..patchSize) |->
            input_image.px[<<boxe.top + p[1], boxe.left + p[2]>>]])

\* crop_to_bounding_box asserts the box lies inside the image
CropFails(height, width, boxe, patchSize) ==
  \/ boxe.top < 0 \/ boxe.left < 0
  \/ boxe.top + patchSize > height \/ boxe.left + patchSize > width

----------------------------------------------------------------------------
(* Crop filters: normalised_entropy, get_sample_entropy_int,                *)
(* _setup_crop_filters, _crop_filter                                        *)

RECURSIVE Pow2Below(_)
Pow2Below(x) == IF x < 2 THEN 1 ELSE 2 * Pow2Below(x \div 2)

RECURSIVE Log2Floor(_)
Log2Floor(x) == IF x < 2 THEN 0 ELSE 1 + Log2Floor(x \div 2)

\* tf.math.log of the integer x >= 1 in fixed point, 10000 * ln(x):
\* x = m * 2^e with 1 <= m < 2 and ln(m) = 2*atanh((m-1)/(m+1)).
LnFixed(x) ==
  LET p == Pow2Below(x)
      z == (10000 * (x - p)) \div (x + p)
      z2 == (z * z) \div 10000
      z3 == (z * z2) \div 10000
      z5 == (z3 * z2) \div 10000
      z7 == (z5 * z2) \div 10000
  IN Log2Floor(x) * 6931 + 2 * (z + z3 \div 3 + z5 \div 5 + z7 \div 7)

\* tf.histogram_fixed_width(tf.cast(sample, tf.int32), [0, 255], nbins=256):
\* one bin per integer value, values outside [0, 255] clipped to the end bins.
HistBin(v) == IF v.nan THEN 0 ELSE Max(0, Min(255, v.val))

\* the flattened values of a tensor, as a sequence
Flatten(t) ==
  LET d == Depth(t)
  IN [i \in 1..(t.h * t.w * d) |->
        t.px[<<((i - 1) \div (t.w * d)) + 1, (((i - 1) \div d) % t.w) + 1>>][((i - 1) % d) + 1]]

BinCount(sample, b) == Cardinality({i \in 1..Len(sample) : HistBin(sample[i]) = b})

RECURSIVE SumOver(_, _)
SumOver(S, F) ==
  IF S = {} THEN 0
  ELSE LET x == CHOOSE y \in S : TRUE IN F[x] + SumOver(S \ {x}, F)

\* normalised_entropy of the histogram of sample, kept as a fraction:
\* entropy = -sum p*log(p + 0.001), with p = count/n; the numerator below is
\* n * entropy and the denominator is log(0.001 + nonzero bins), both in the
\* fixed point of LnFixed.  The denominator is positive.
EntropyTimesN(sample) ==
  LET n == Len(sample)
      bins == {HistBin(sample[i]) : i \in 1..n}
      term == [b \in bins |->
                 BinCount(sample, b) *
                   (LnFixed(1000 * BinCount(sample, b) + n) - LnFixed(1000 * n))]
  IN -SumOver(bins, term)

EntropyNorm(sample) ==
  LET bins == {HistBin(sample[i]) : i \in 1..Len(sample)}
  IN LnFixed(1000 * Cardinality(bins) + 1) - LnFixed(1000)

\* normalised_entropy(counts) > threshold: both sides are multiplied by the
\* positive n * log(0.001 + nonzero bins).
EntropyAbove(sample, threshold) ==
  EntropyTimesN(sample) * threshold.d > threshold.n * Len(sample) * EntropyNorm(sample)

balance_classes_entropy(obj, crop) ==
  EntropyAbove(Flatten(SliceChannels(crop, obj.single_image_raw_depth,
                                     obj.single_image_reference_depth)),
               obj.classes_entropy_threshold)

has_no_nans(crop) == ~AnyNan(crop)

\* the predicates a caller supplies in additionnal_filters
UserFilters == {"user_first_is_first_row", "user_label_one"}

ApplyFilter(name, obj, crop) ==
  IF name = "has_no_nans" THEN has_no_nans(crop)
  ELSE IF name = "balance_classes_entropy" THEN balance_classes_entropy(obj, crop)
  ELSE IF name = "user_first_is_first_row" THEN crop.px[<<1, 1>>][1].r = 1
  ELSE crop.px[<<1, 1>>][Len(crop.px[<<1, 1>>])].val = 1

\* _setup_crop_filters: the built-in filters are inserted at the head of
\* self.additionnal_filters, which is the list object the caller passed.
setup_crop_filters(obj, filters) ==
  LET f1 == IF obj.balance_classes_distribution /\ ~obj.no_reference
              THEN <<"balance_classes_entropy">> \o filters ELSE filters
  IN IF obj.manage_nan_values = "avoid" THEN <<"has_no_nans">> \o f1 ELSE f1

\* the crops handed over without crops.filter(self._crop_filter)
crop_filter_accept_all(obj, crop) == TRUE

\* the loop leaving after the first filter
crop_filter_first_only(obj, crop) ==
  IF obj.nb_filters = 0 THEN TRUE
  ELSE ApplyFilter(obj.additionnal_filters[1], obj, crop)

\* _crop_filter: filter_ok = True; for i in range(nb_filters): filter_ok &= f[i](crop)
RECURSIVE crop_filter_from(_, _, _, _)
crop_filter_from(obj, crop, i, filter_ok) ==
  IF i > obj.nb_filters THEN filter_ok
  ELSE crop_filter_from(obj, crop, i + 1,
                        filter_ok /\ ApplyFilter(obj.additionnal_filters[i], obj, crop))

crop_filter(obj, crop) == crop_filter_from(obj, crop, 1, TRUE)

----------------------------------------------------------------------------
(* Transforms: _setup_image_transforms, _image_transform                    *)

\* self.rng.make_seeds(2)[0]: the seed pair is a function of the master seed
\* and of the number of seeds the generator issued before.
make_seeds(master, count) == [master |-> master, ctr |-> count]

\* the value a stateless_random_* op derives from a seed pair
Uniform(seed) ==
  (seed.master + 2 * seed.ctr * seed.ctr + seed.ctr) % UniformLevels

\* uniform < 0.5, the test of stateless_random_flip_*
FlipDecision(seed) == 2 * Uniform(seed) < UniformLevels

FlipLeftRight(t) ==
  Tensor(t.h, t.w, [p \in Positions(t) |-> t.px[<<p[1], t.w + 1 - p[2]>>]])

FlipUpDown(t) ==
  Tensor(t.h, t.w, [p \in Positions(t) |-> t.px[<<t.h + 1 - p[1], p[2]>>]])

\* one counter-clockwise quarter turn
Rot90Once(t) ==
  Tensor(t.w, t.h, [p \in (1..t.w) \X (1..t.h) |-> t.px[<<p[2], t.w + 1 - p[1]>>]])

RECURSIVE Rot90(_, _)
Rot90(t, k) == IF k = 0 THEN t ELSE Rot90(Rot90Once(t), k - 1)

\* the NaN values left as they are
replace_nans_by_nothing(t) == t

replace_nans_by_zeros(t) ==
  Tensor(t.h, t.w, [p \in Positions(t) |-> [k \in 1..Len(t.px[p]) |->
      LET v == t.px[p][k] IN IF v.nan THEN [v EXCEPT !.nan = FALSE, !.val = 0] ELSE v]])

\* tf.image.per_image_standardization: float32 output, every value depends
\* on the mean and deviation of the whole tensor, so one NaN makes all NaN.
img_standardize(t) ==
  LET bad == AnyNan(t)
  IN Tensor(t.h, t.w, [p \in Positions(t) |-> [k \in 1..Len(t.px[p]) |->
      LET v == t.px[p][k] IN [v EXCEPT !.nan = bad, !.dtype = "float32",
                                       !.ops = Append(@, <<"standardize">>)]]])

\* a stateless photometric op: its delta/factor is derived from the seed pair
Photometric(t, name, magnitude, seed) ==
  Tensor(t.h, t.w, [p \in Positions(t) |-> [k \in 1..Len(t.px[p]) |->
      LET v == t.px[p][k] IN [v EXCEPT !.ops = Append(@, <<name, magnitude, Uniform(seed)>>)]]])

\* _setup_image_transforms: the two ordered lists of transforms
image_label_transforms(obj) ==
  (IF obj.manage_nan_values = "zeros" THEN <<"replace_nans_by_zeros">> ELSE <<>>)
  \o (IF obj.apply_random_flip_left_right THEN <<"flip_left_right">> ELSE <<>>)
  \o (IF obj.apply_random_flip_up_down THEN <<"flip_up_down">> ELSE <<>>)
  \o (IF obj.apply_random_rot90 THEN <<"random_rot90">> ELSE <<>>)

\* the pixel transforms without the slice of the raw channels
image_pixels_transforms_all_channels(obj) ==
  (IF obj.apply_whitening THEN <<"img_standardize">> ELSE <<>>)
  \o (IF obj.apply_random_brightness # None THEN <<"apply_random_brightness">> ELSE <<>>)
  \o (IF obj.apply_random_saturation # None THEN <<"apply_random_saturation">> ELSE <<>>)
  \o (IF obj.apply_random_contrast # None THEN <<"apply_random_contrast">> ELSE <<>>)

image_pixels_transforms(obj) ==
  (IF ~obj.no_reference THEN <<"get_image_channels">> ELSE <<>>)
  \o (IF obj.apply_whitening THEN <<"img_standardize">> ELSE <<>>)
  \o (IF obj.apply_random_brightness # None THEN <<"apply_random_brightness">> ELSE <<>>)
  \o (IF obj.apply_random_saturation # None THEN <<"apply_random_saturation">> ELSE <<>>)
  \o (IF obj.apply_random_contrast # None THEN <<"apply_random_contrast">> ELSE <<>>)

\* the same with an up-down flip that decides on a seed pair of its own
ApplyTransformOwnSeeds(name, obj, t, seed, rot) ==
  CASE name = "replace_nans_by_zeros" -> replace_nans_by_zeros(t)
    [] name = "flip_left_right" -> IF FlipDecision(seed) THEN FlipLeftRight(t) ELSE t
    [] name = "flip_up_down" ->
         IF FlipDecision([seed EXCEPT !.ctr = @ + 1]) THEN FlipUpDown(t) ELSE t
    [] name = "random_rot90" -> Rot90(t, rot)
    [] name = "get_image_channels" -> SliceChannels(t, 0, obj.single_image_raw_depth)
    [] name = "img_standardize" -> img_standardize(t)
    [] name = "apply_random_brightness" ->
         Photometric(t, "brightness", obj.apply_random_brightness, seed)
    [] name = "apply_random_saturation" ->
         Photometric(t, "saturation", obj.apply_random_saturation, seed)
    [] name = "apply_random_contrast" ->
         Photometric(t, "contrast", obj.apply_random_contrast, seed)

\* One transform of either list applied to tensor t.  random_rot90 ignores its
\* seed argument and draws the number of quarter turns from tf.random.uniform,
\* i.e. from the global generator: rot is that draw.
ApplyTransform(name, obj, t, seed, rot) ==
  CASE name = "replace_nans_by_zeros" -> replace_nans_by_zeros(t)
    [] name = "flip_left_right" -> IF FlipDecision(seed) THEN FlipLeftRight(t) ELSE t
    [] name = "flip_up_down" -> IF FlipDecision(seed) THEN FlipUpDown(t) ELSE t
    [] name = "random_rot90" -> Rot90(t, rot)
    [] name = "get_image_channels" -> SliceChannels(t, 0, obj.single_image_raw_depth)
    [] name = "img_standardize" -> img_standardize(t)
    [] name = "apply_random_brightness" ->
         Photometric(t, "brightness", obj.apply_random_brightness, seed)
    [] name = "apply_random_saturation" ->
         Photometric(t, "saturation", obj.apply_random_saturation, seed)
    [] name = "apply_random_contrast" ->
         Photometric(t, "contrast", obj.apply_random_contrast, seed)

RECURSIVE ApplyAll(_, _, _, _, _, _)
ApplyAll(list, i, obj, t, seed, rot) ==
  IF i > Len(list) THEN t
  ELSE ApplyAll(list, i + 1, obj, ApplyTransform(list[i], obj, t, seed, rot), seed, rot)

\* self.post_process_fn: the caller's crops_postprocess, or the identity no_op
post_process_fn(obj, t, seed) ==
  IF obj.crops_postprocess = "None" THEN t
  ELSE Tensor(t.h, t.w, [p \in Positions(t) |-> [k \in 1..Len(t.px[p]) |->
      LET v == t.px[p][k] IN [v EXCEPT !.ops = Append(@, <<"postprocess">>)]]])

\* stage A of _image_transform: the whole composite through image_label_transforms
stage_A(obj, input_image, seed, rot) ==
  ApplyAll(image_label_transforms(obj), 1, obj, input_image, seed, rot)

\* the reference channels taken from the crop as it came in, before the
\* transforms of image_label_transforms
image_transform_reference_before(obj, input_image, seed, rot) ==
  LET afterA == stage_A(obj, input_image, seed, rot)
      reference_img == Cast(SliceChannels(input_image, obj.single_image_raw_depth,
                                          obj.single_image_reference_depth), obj.dtype)
      afterB == ApplyAll(image_pixels_transforms(obj), 1, obj, afterA, seed, rot)
      joined == IF ~obj.no_reference
                  THEN ConcatChannels(Cast(afterB, obj.dtype), reference_img)
                  ELSE afterB
  IN post_process_fn(obj, joined, seed)

\* _image_transform.image_transform for one crop, given the seed pair it drew
image_transform(obj, input_image, seed, rot) ==
  LET afterA == stage_A(obj, input_image, seed, rot)
      reference_img == Cast(SliceChannels(afterA, obj.single_image_raw_depth,
                                          obj.single_image_reference_depth), obj.dtype)
      afterB == ApplyAll(image_pixels_transforms(obj), 1, obj, afterA, seed, rot)
      joined == IF ~obj.no_reference
                  THEN ConcatChannels(Cast(afterB, obj.dtype), reference_img)
                  ELSE afterB
  IN post_process_fn(obj, joined, seed)

----------------------------------------------------------------------------
(* Construction: __init__ and the _setup_* / _create_* methods it calls     *)

\* fields of the object before __init__ has run
NoSelf ==
  [shuffle_samples |-> FALSE, nbEpoch |-> 0, batch_size |-> 0,
   num_reader_threads |-> 0, image_area_coverage_factor |-> None,
   apply_random_flip_left_right |-> FALSE, apply_random_flip_up_down |-> FALSE,
   apply_random_rot90 |-> FALSE, apply_random_brightness |-> None,
   apply_random_saturation |-> None, apply_random_contrast |-> None,
   apply_whitening |-> FALSE, balance_classes_distribution |-> FALSE,
   classes_entropy_threshold |-> None, field_of_view |-> 0,
   manage_nan_values |-> "None", crops_postprocess |-> "None",
   dtype |-> "float16", seed |-> 0,
   image_pairs_raw_ref_input |-> FALSE, no_reference |-> FALSE,
   single_image_raw_depth |-> 0, single_image_reference_depth |-> 0,
   radius_of_view |-> 0, patch_ratio_vs_input |-> None,
   max_patches_per_image |-> 0, patchSize |-> 0, full_frame_mode |-> FALSE,
   image_loading_fn |-> "unset", additionnal_filters |-> <<>>, nb_filters |-> 0,
   datasetFiles |-> <<>>]

\* lines 990-1019: the arguments are stored on the object
StoredArgs(a) ==
  [NoSelf EXCEPT
     !.shuffle_samples = a.shuffle_samples, !.nbEpoch = a.nbEpoch,
     !.batch_size = a.batch_size, !.num_reader_threads = a.num_reader_threads,
     !.image_area_coverage_factor = a.image_area_coverage_factor,
     !.apply_random_flip_left_right = a.apply_random_flip_left_right,
     !.apply_random_flip_up_down = a.apply_random_flip_up_down,
     !.apply_random_rot90 = a.apply_random_rot90,
     !.apply_random_brightness = a.apply_random_brightness,
     !.apply_random_saturation = a.apply_random_saturation,
     !.apply_random_contrast = a.apply_random_contrast,
     !.apply_whitening = a.apply_whitening,
     !.balance_classes_distribution = a.balance_classes_distribution,
     !.classes_entropy_threshold = a.classes_entropy_threshold,
     !.field_of_view = a.field_of_view,
     !.manage_nan_values = a.manage_nan_values,
     !.crops_postprocess = a.crops_postprocess,
     !.dtype = a.dtype, !.seed = a.seed,
     !.patch_ratio_vs_input = a.patch_ratio_vs_input,
     !.max_patches_per_image = a.max_patches_per_image]

\* lines 1040-1072: reference mode and depths, from the first raw image
WithReferenceMode(obj, a) ==
  LET raw0 == images[a.filelist_raw_data[1]]
  IN IF a.filelist_reference_data.kind = "None"
       THEN [obj EXCEPT !.single_image_raw_depth = raw0.C - 1,
                        !.single_image_reference_depth = 1]
     ELSE IF a.filelist_reference_data.kind = "list"
       THEN [obj EXCEPT !.image_pairs_raw_ref_input = TRUE,
                        !.single_image_raw_depth = raw0.C,
                        !.single_image_reference_depth =
                            images[a.filelist_reference_data.files[1]].C]
     ELSE [obj EXCEPT !.no_reference = TRUE,
                      !.single_image_raw_depth = raw0.C,
                      !.single_image_reference_depth = 0]

\* line 1054: the first raw and reference images must have the same size
FirstSizesDiffer(a) ==
  /\ a.filelist_reference_data.kind = "list"
  /\ LET raw0 == images[a.filelist_raw_data[1]]
         ref0 == images[a.filelist_reference_data.files[1]]
     IN raw0.H # ref0.H \/ raw0.W # ref0.W

\* lines 1078-1081
WithRadiusOfView(obj) ==
  [obj EXCEPT !.radius_of_view =
     IF obj.field_of_view > 0 THEN (obj.field_of_view - 1) \div 2 ELSE 0]

\* lines 1084-1095: patch size, forced single patch, full-frame flag
WithPatchSize(obj, a) ==
  LET r == a.patch_ratio_vs_input
      h0 == images[a.filelist_raw_data[1]].H
      whole == r.n = r.d \/ r.n < 0
      o1 == IF whole
              THEN [obj EXCEPT !.patch_ratio_vs_input = Rat(1, 1),
                               !.max_patches_per_image = 1]
              ELSE obj
      o2 == IF r.n > r.d
              THEN [o1 EXCEPT !.patchSize = Trunc(r.n, r.d),
                              !.patch_ratio_vs_input = Rat(r.n, r.d * h0)]
              ELSE [o1 EXCEPT !.patchSize = Trunc(h0 * r.n, r.d)]
  IN [o2 EXCEPT !.full_frame_mode =
        (o2.patch_ratio_vs_input.n = o2.patch_ratio_vs_input.d
         /\ o2.max_patches_per_image = 1)]

\* _setup_load_raw_images_from_filenames and the two methods it dispatches
\* to: the loader chosen, "unset" when no branch assigns image_loading_fn.
select_image_loading_fn(obj, a) ==
  LET r == a.use_alternative_imread
  IN IF obj.image_pairs_raw_ref_input
       THEN IF r # "None"
              THEN IF r \in {"opencv", "gdal", "rasterio"} THEN "load_from_" \o r
                   ELSE "unset"
              ELSE "load_from_tf"
       ELSE IF r \in {"opencv", "gdal", "rasterio"} THEN "load_from_" \o r
            ELSE "ValueError"

\* A path or a descriptor is a sequence of characters.
filenames_separator == <<"#", "#", "#">>

\* ''+string1+filenames_separator+string2
JoinFilenames(string1, string2) == string1 \o filenames_separator \o string2

\* tf.strings.split(s, sep=sep).values: the separators are found from the
\* left, without overlap, and empty parts are kept
RECURSIVE SplitFrom(_, _, _, _)
SplitFrom(s, sep, i, part) ==
  IF i > Len(s) THEN <<part>>
  ELSE IF i + Len(sep) - 1 <= Len(s) /\ SubSeq(s, i, i + Len(sep) - 1) = sep
    THEN <<part>> \o SplitFrom(s, sep, i + Len(sep), <<>>)
  ELSE SplitFrom(s, sep, i + 1, Append(part, s[i]))

splitted_filenames(raw_ref_img_filenames) ==
  SplitFrom(raw_ref_img_filenames, filenames_separator, 1, <<>>)

\* the file a path names, 0 when there is none
FileAt(path) ==
  LET named == {f \in DOMAIN images : f \in DOMAIN args.paths /\ args.paths[f] = path}
  IN IF named = {} THEN 0 ELSE CHOOSE f \in named : \A g \in named : f <= g

\* the loader taking the reference path first
ReadDescriptorSwapped(obj, descriptor) ==
  IF obj.image_pairs_raw_ref_input
    THEN [raw |-> FileAt(splitted_filenames(descriptor)[2]),
          ref |-> FileAt(splitted_filenames(descriptor)[1])]
    ELSE [raw |-> FileAt(descriptor), ref |-> 0]

\* load_from_*: the files a descriptor makes the loader read, the raw image
\* from values[0] and the reference image from values[1] of the split
\* descriptor, or the raw image from the whole descriptor
ReadDescriptor(obj, descriptor) ==
  IF obj.image_pairs_raw_ref_input
    THEN [raw |-> FileAt(splitted_filenames(descriptor)[1]),
          ref |-> FileAt(splitted_filenames(descriptor)[2])]
    ELSE [raw |-> FileAt(descriptor), ref |-> 0]

\* imread_from_*: the file could not be read
FileMissing(obj, desc) ==
  desc.raw = 0 \/ (obj.image_pairs_raw_ref_input /\ desc.ref = 0)

\* the descriptor list with one descriptor per raw file, the last reference
\* file repeated when the reference list is shorter
create_dataset_filenames_padded(obj, a) ==
  IF obj.image_pairs_raw_ref_input
    THEN [k \in 1..Len(a.filelist_raw_data) |->
            JoinFilenames(a.paths[a.filelist_raw_data[k]],
                          a.paths[a.filelist_reference_data.files[
                             Min(k, Len(a.filelist_reference_data.files))]])]
    ELSE [k \in 1..Len(a.filelist_raw_data) |-> a.paths[a.filelist_raw_data[k]]]

\* _create_dataset_filenames: the descriptor list, raw and reference paths
\* zipped and joined when both lists are given
create_dataset_filenames(obj, a) ==
  IF obj.image_pairs_raw_ref_input
    THEN [k \in 1..Min(Len(a.filelist_raw_data), Len(a.filelist_reference_data.files)) |->
            JoinFilenames(a.paths[a.filelist_raw_data[k]],
                          a.paths[a.filelist_reference_data.files[k]])]
    ELSE [k \in 1..Len(a.filelist_raw_data) |-> a.paths[a.filelist_raw_data[k]]]

\* the object as __init__ leaves it when it reaches the call of
\* _setup_crop_filters (line 1114), filters being the caller's list
Configured(a, filters) ==
  LET o1 == WithPatchSize(WithRadiusOfView(WithReferenceMode(StoredArgs(a), a)), a)
      o2 == [o1 EXCEPT !.image_loading_fn = select_image_loading_fn(o1, a)]
      chain == setup_crop_filters(o2, filters)
      o3 == [o2 EXCEPT !.additionnal_filters = chain, !.nb_filters = Len(chain)]
  IN [o3 EXCEPT !.datasetFiles = create_dataset_filenames(o3, a)]

\* lines 1029-1047: filelist_raw_data[0] and filelist_reference_data[0] are
\* read; an empty list has no element 0
NoFirstFile(a) ==
  \/ Len(a.filelist_raw_data) = 0
  \/ (a.filelist_reference_data.kind = "list"
      /\ Len(a.filelist_reference_data.files) = 0)

\* __init__ without its test of field_of_view
EarlyErrorAnyFieldOfView(a) ==
  LET obj == Configured(a, <<>>)
  IN IF a.image_area_coverage_factor.n <= 0 THEN "ValueError: image_area_coverage_factor"
     ELSE IF ~a.additionnal_filters_is_list THEN "ValueError: additionnal_filters"
     ELSE IF NoFirstFile(a) THEN "IndexError: list index out of range"
     ELSE IF FirstSizesDiffer(a) THEN "ValueError: first input files sizes"
     ELSE IF obj.full_frame_mode /\ obj.no_reference
       THEN "AttributeError: fullframe_ref_shape"
     ELSE IF obj.image_loading_fn = "ValueError" THEN "ValueError: image reader"
     ELSE "none"

\* the exception __init__ raises before _setup_crop_filters runs, if any
EarlyError(a) ==
  LET obj == Configured(a, <<>>)
  IN IF a.image_area_coverage_factor.n <= 0 THEN "ValueError: image_area_coverage_factor"
     ELSE IF ~a.additionnal_filters_is_list THEN "ValueError: additionnal_filters"
     ELSE IF NoFirstFile(a) THEN "IndexError: list index out of range"
     ELSE IF FirstSizesDiffer(a) THEN "ValueError: first input files sizes"
     ELSE IF a.field_of_view % 2 = 0 /\ a.field_of_view # 0 THEN "ValueError: field_of_view"
     ELSE IF obj.full_frame_mode /\ obj.no_reference
       THEN "AttributeError: fullframe_ref_shape"
     ELSE IF obj.image_loading_fn = "ValueError" THEN "ValueError: image reader"
     ELSE "none"

\* the exception _create_data_pipeline raises while it builds the dataset:
\* the full-frame branch maps self._load_raw_images_from_filenames, which the
\* class does not define; the crop branch traces _generate_crops, which
\* reads self.image_loading_fn.
PipelineError(obj) ==
  IF obj.full_frame_mode THEN "AttributeError: _load_raw_images_from_filenames"
  ELSE IF obj.image_loading_fn = "unset" THEN "AttributeError: image_loading_fn"
  ELSE "none"

----------------------------------------------------------------------------
(* The dataset graph of _create_data_pipeline, stage by stage               *)

NbFiles == Len(self.datasetFiles)

\* from_tensor_slices(datasetFiles) without repeat: one pass
TotalDescriptorsOnePass == NbFiles

\* from_tensor_slices(datasetFiles).repeat(nbEpoch): length of the stream
TotalDescriptors == NbFiles * self.nbEpoch

\* the k-th element (0-based) of from_tensor_slices(datasetFiles).repeat()
RepeatedIndex(k) == (k % NbFiles) + 1

BufSize(buf) == SumOver(DOMAIN buf, buf)

\* Dataset.shuffle(len(datasetFiles)): before it returns an element the
\* buffer is filled from its input up to buffer_size
RECURSIVE FillBuffer(_, _)
FillBuffer(buf, pos) ==
  IF BufSize(buf) >= NbFiles \/ pos >= TotalDescriptors THEN [buf |-> buf, pos |-> pos]
  ELSE FillBuffer([buf EXCEPT ![RepeatedIndex(pos)] = @ + 1], pos + 1)

\* The results the filenames dataset of _create_dataset_filenames can give
\* to its next get_next: [idx, buf, pos], idx = 0 at the end of the sequence.
FilenamesNext ==
  IF self.shuffle_samples
    THEN LET filled == FillBuffer(shuffleBuf, srcPos)
         IN IF BufSize(filled.buf) = 0
              THEN {[idx |-> 0, buf |-> filled.buf, pos |-> filled.pos]}
              ELSE {[idx |-> i, buf |-> [filled.buf EXCEPT ![i] = @ - 1], pos |-> filled.pos] :
                      i \in {j \in DOMAIN filled.buf : filled.buf[j] > 0}}
    ELSE IF srcPos >= TotalDescriptors
           THEN {[idx |-> 0, buf |-> shuffleBuf, pos |-> srcPos]}
           ELSE {[idx |-> RepeatedIndex(srcPos), buf |-> shuffleBuf, pos |-> srcPos + 1]}

InputExhausted == \A r \in FilenamesNext : r.idx = 0

EmptySlot ==
  [open |-> FALSE, desc |-> [raw |-> 0, ref |-> 0], height |-> 0, width |-> 0,
   boxes |-> <<>>, nxt |-> 0]

\* the image the selected image_loading_fn returns for a descriptor
LoadedImage(obj, desc) ==
  load_image(desc.raw, desc.ref, obj.single_image_raw_depth, obj.single_image_reference_depth,
             IF obj.image_loading_fn = "load_from_tf" THEN "uint8" ELSE "float32")

\* tf.concat of the raw and the reference image needs equal heights and widths
LoadFails(desc) ==
  /\ desc.ref # 0
  /\ (images[desc.raw].H # images[desc.ref].H \/ images[desc.raw].W # images[desc.ref].W)

\* The counts self.nbPatches can take in random mode; -1 stands for a
\* negative count.  A zero patchSize makes the quotient infinite, and the
\* cast of an infinite float to int32 is not defined: it saturates to either
\* end of the int32 range.
NbPatchesChoices(obj, height, width) ==
  IF obj.patchSize = 0
    THEN {-1, obj.max_patches_per_image}
    ELSE {NbPatches(height, width, obj.patchSize, obj.image_area_coverage_factor,
                    obj.max_patches_per_image)}

\* what stands for the list of boxes when planning them raises
ErrorPlan == <<[top |-> -1, left |-> -1]>>

\* random boxes drawn over the whole image instead of [0, size - patchSize)
PlannedBoxesWholeImage(obj, height, width) ==
  IF obj.shuffle_samples
    THEN UNION {
           IF n < 0 THEN {ErrorPlan}
           ELSE [1..n -> [top : UniformRange(height), left : UniformRange(width)]] :
           n \in NbPatchesChoices(obj, height, width)}
    ELSE IF RegularFails(height, width, obj.patchSize, obj.radius_of_view)
           THEN {ErrorPlan}
           ELSE {RegularBoxes(height, width, obj.patchSize, obj.radius_of_view)}

\* The lists of boxes _generate_crops can plan for an image of the given
\* size (ErrorPlan when planning raises).
PlannedBoxes(obj, height, width) ==
  IF obj.shuffle_samples
    THEN UNION {
           IF n < 0 \/ UniformFails(n, height - obj.patchSize)
                    \/ UniformFails(n, width - obj.patchSize)
             THEN {ErrorPlan}
             ELSE [1..n -> [top : UniformRange(height - obj.patchSize),
                            left : UniformRange(width - obj.patchSize)]] :
           n \in NbPatchesChoices(obj, height, width)}
    ELSE IF RegularFails(height, width, obj.patchSize, obj.radius_of_view)
           THEN {ErrorPlan}
           ELSE {RegularBoxes(height, width, obj.patchSize, obj.radius_of_view)}

----------------------------------------------------------------------------
(* Actions *)

NoTensor == Tensor(0, 0, <<>>)

NoFilter == [valid |-> FALSE, crop |-> NoTensor, accepted |-> FALSE]

NoSeed == [master |-> 0, ctr |-> -1]

\* the stream state of a pipeline whose dataset has not been iterated
FreshStream(threads, nfiles) ==
  /\ srcPos' = 0
  /\ shuffleBuf' = [i \in 1..nfiles |-> 0]
  /\ descStream' = <<>>
  /\ slots' = [i \in 1..threads |-> EmptySlot]
  /\ cycleIdx' = 1
  /\ inflight' = <<>>
  /\ rngCount' = 0
  /\ batchbuf' = <<>>
  /\ prefetch' = <<>>
  /\ producerDone' = FALSE
  /\ out' = <<>>
  /\ lastFilter' = NoFilter

\* FileListProcessor_Semantic_Segmentation.__init__
Construct ==
  /\ pc = "new"
  /\ LET early == EarlyError(args)
         obj == Configured(args, callerFilters)
         late == PipelineError(obj)
     IN IF early # "none"
          THEN /\ pc' = "error"
               /\ raised' = early
               /\ self' = NoSelf
               /\ callerFilters' = callerFilters
               /\ FreshStream(0, 0)
          ELSE /\ self' = obj
               /\ callerFilters' = obj.additionnal_filters
               /\ pc' = IF late # "none" THEN "error" ELSE "configured"
               /\ raised' = late
               /\ IF late # "none" THEN FreshStream(0, 0)
                  ELSE FreshStream(obj.num_reader_threads, Len(obj.datasetFiles))
  /\ UNCHANGED <<args, images, history>>

Streaming == pc \in {"configured", "streaming"}

StreamFails(what) ==
  /\ pc' = "failed"
  /\ raised' = what
  /\ UNCHANGED <<srcPos, shuffleBuf, descStream, slots, cycleIdx, inflight, lastFilter>>

\* the slot the interleave reads next: with deterministic=True the cycle
\* index, moved past empty slots once the input is exhausted; otherwise any
NextOpen(i) ==
  LET n == Len(slots)
      k == CHOOSE d \in 0..(n - 1) :
             /\ slots[((i - 1 + d) % n) + 1].open
             /\ \A e \in 0..(d - 1) : ~slots[((i - 1 + e) % n) + 1].open
  IN ((i - 1 + k) % n) + 1

AnyOpen == \E i \in 1..Len(slots) : slots[i].open

\* the cycle read in any order, whatever deterministic is
ActiveSlotsUnordered == 1..Len(slots)

ActiveSlots ==
  IF self.shuffle_samples THEN 1..Len(slots)
  ELSE IF InputExhausted /\ AnyOpen THEN {NextOpen(cycleIdx)}
  ELSE {cycleIdx}

\* interleave(map_func=self._generate_crops): an empty slot of the cycle takes
\* the next descriptor; _generate_crops loads the image and plans its boxes
InterleaveOpen ==
  /\ Streaming
  /\ ~InputExhausted
  /\ \E s \in ActiveSlots : \E nx \in FilenamesNext :
       /\ ~slots[s].open
       /\ LET desc == ReadDescriptor(self, self.datasetFiles[nx.idx])
              height == images[desc.raw].H
              width == images[desc.raw].W
          IN IF FileMissing(self, desc)
               THEN StreamFails("ValueError: Could no read file")
               ELSE \E boxes \in PlannedBoxes(self, height, width) :
                 IF LoadFails(desc) \/ boxes = ErrorPlan
                   THEN StreamFails("InvalidArgumentError: _generate_crops")
                   ELSE /\ slots' = [slots EXCEPT ![s] =
                                       [open |-> TRUE, desc |-> desc, height |-> height,
                                        width |-> width, boxes |-> boxes, nxt |-> 1]]
                        /\ srcPos' = nx.pos
                        /\ shuffleBuf' = nx.buf
                        /\ descStream' = Append(descStream, nx.idx)
                        /\ pc' = "streaming"
                        /\ UNCHANGED <<raised, cycleIdx, inflight, lastFilter>>
  /\ UNCHANGED <<args, images, callerFilters, self, rngCount, batchbuf, prefetch,
                 producerDone, out, history>>

\* One step of the per-file dataset crops.filter(self._crop_filter) read by
\* the interleave with block_length=1: the next box is cropped and filtered;
\* an accepted crop is handed to map(self._image_transform) and the cycle
\* advances, a rejected one is dropped, an exhausted dataset frees its slot
\* and the cycle advances to the next slot.
InterleaveNext ==
  /\ Streaming
  /\ Len(inflight) < MaxParallel
  /\ \E s \in ActiveSlots :
       /\ slots[s].open
       /\ LET sl == slots[s]
          IN IF sl.nxt > Len(sl.boxes)
               THEN /\ slots' = [slots EXCEPT ![s] = EmptySlot]
                    /\ cycleIdx' = IF self.shuffle_samples THEN cycleIdx
                                   ELSE (s % Len(slots)) + 1
                    /\ UNCHANGED <<pc, raised, inflight, lastFilter>>
             ELSE IF CropFails(sl.height, sl.width, sl.boxes[sl.nxt], self.patchSize)
               THEN /\ pc' = "failed"
                    /\ raised' = "InvalidArgumentError: crop_to_bounding_box"
                    /\ UNCHANGED <<slots, cycleIdx, inflight, lastFilter>>
             ELSE LET crop == get_crop(LoadedImage(self, sl.desc), sl.boxes[sl.nxt],
                                       self.patchSize)
                      ok == crop_filter(self, crop)
                  IN /\ slots' = [slots EXCEPT ![s].nxt = @ + 1]
                     /\ lastFilter' = [valid |-> TRUE, crop |-> crop, accepted |-> ok]
                     /\ inflight' = IF ok
                                      THEN Append(inflight, [crop |-> crop, seed |-> NoSeed,
                                                             rot |-> 0, result |-> NoTensor,
                                                             done |-> FALSE])
                                      ELSE inflight
                     /\ cycleIdx' = IF ok /\ ~self.shuffle_samples
                                      THEN (s % Len(slots)) + 1 ELSE cycleIdx
                     /\ pc' = "streaming"
                     /\ UNCHANGED raised
  /\ UNCHANGED <<args, images, callerFilters, self, srcPos, shuffleBuf, descStream,
                 rngCount, batchbuf, prefetch, producerDone, out, history>>

\* One of the parallel calls of _image_transform: it draws its seed pair from
\* self.rng and transforms its crop.  The calls in flight reach the generator
\* in any order.
ImageTransform ==
  /\ Streaming
  /\ \E i \in 1..Len(inflight) :
       /\ ~inflight[i].done
       /\ \E rot \in (IF self.apply_random_rot90 THEN 0..3 ELSE {0}) :
            LET seed == make_seeds(self.seed, rngCount)
            IN inflight' = [inflight EXCEPT ![i] =
                 [crop |-> inflight[i].crop, seed |-> seed, rot |-> rot,
                  result |-> image_transform(self, inflight[i].crop, seed, rot),
                  done |-> TRUE]]
  /\ rngCount' = rngCount + 1
  /\ UNCHANGED <<args, images, callerFilters, self, pc, raised, srcPos, shuffleBuf,
                 descStream, slots, cycleIdx, batchbuf, prefetch, producerDone, out,
                 lastFilter, history>>

RemoveAt(seq, i) == SubSeq(seq, 1, i - 1) \o SubSeq(seq, i + 1, Len(seq))

\* the same with a final buffer that never refuses a batch
BatchPullUnbounded ==
  /\ Streaming
  /\ \E i \in (IF self.shuffle_samples THEN 1..Len(inflight) ELSE {1}) :
       /\ i <= Len(inflight)
       /\ inflight[i].done
       /\ inflight' = RemoveAt(inflight, i)
       /\ LET gathered == Append(batchbuf, inflight[i])
          IN IF Len(gathered) >= self.batch_size
               THEN /\ prefetch' = Append(prefetch, gathered)
                    /\ batchbuf' = <<>>
               ELSE /\ batchbuf' = gathered
                    /\ UNCHANGED prefetch
  /\ UNCHANGED <<args, images, callerFilters, self, pc, raised, srcPos, shuffleBuf,
                 descStream, slots, cycleIdx, rngCount, producerDone, out,
                 lastFilter, history>>

\* map(..., deterministic=not shuffle_samples) hands its results over in
\* input order, or in any order; batch(batch_size) gathers them and gives a
\* full batch to the final prefetch buffer when it has room.
BatchPull ==
  /\ Streaming
  /\ Len(prefetch) < MaxPrefetch
  /\ \E i \in (IF self.shuffle_samples THEN 1..Len(inflight) ELSE {1}) :
       /\ i <= Len(inflight)
       /\ inflight[i].done
       /\ inflight' = RemoveAt(inflight, i)
       /\ LET gathered == Append(batchbuf, inflight[i])
          IN IF Len(gathered) >= self.batch_size
               THEN /\ prefetch' = Append(prefetch, gathered)
                    /\ batchbuf' = <<>>
               ELSE /\ batchbuf' = gathered
                    /\ UNCHANGED prefetch
  /\ UNCHANGED <<args, images, callerFilters, self, pc, raised, srcPos, shuffleBuf,
                 descStream, slots, cycleIdx, rngCount, producerDone, out,
                 lastFilter, history>>

\* batch(drop_remainder=False): the partial batch is handed over as it is
EndOfInputKeepRemainder ==
  /\ pc = "streaming"
  /\ ~producerDone
  /\ InputExhausted
  /\ ~AnyOpen
  /\ inflight = <<>>
  /\ producerDone' = TRUE
  /\ batchbuf' = <<>>
  /\ prefetch' = IF batchbuf # <<>> THEN Append(prefetch, batchbuf) ELSE prefetch
  /\ UNCHANGED <<args, images, callerFilters, self, pc, raised, srcPos, shuffleBuf,
                 descStream, slots, cycleIdx, inflight, rngCount, out,
                 lastFilter, history>>

\* batch(drop_remainder=True) at the end of its input: the partial batch is
\* dropped
EndOfInput ==
  /\ pc = "streaming"
  /\ ~producerDone
  /\ InputExhausted
  /\ ~AnyOpen
  /\ inflight = <<>>
  /\ producerDone' = TRUE
  /\ batchbuf' = <<>>
  /\ UNCHANGED <<args, images, callerFilters, self, pc, raised, srcPos, shuffleBuf,
                 descStream, slots, cycleIdx, inflight, rngCount, prefetch, out,
                 lastFilter, history>>

\* the consumer takes the next batch of the dataset
Consume ==
  /\ pc = "streaming"
  /\ prefetch # <<>>
  /\ out' = Append(out, Head(prefetch))
  /\ prefetch' = Tail(prefetch)
  /\ UNCHANGED <<args, images, callerFilters, self, pc, raised, srcPos, shuffleBuf,
                 descStream, slots, cycleIdx, inflight, rngCount, batchbuf,
                 producerDone, lastFilter, history>>

\* the consumer reaches the end of the dataset
Finish ==
  /\ pc = "streaming"
  /\ producerDone
  /\ prefetch = <<>>
  /\ pc' = "exhausted"
  /\ UNCHANGED <<args, images, callerFilters, self, raised, srcPos, shuffleBuf,
                 descStream, slots, cycleIdx, inflight, rngCount, batchbuf, prefetch,
                 producerDone, out, lastFilter, history>>

\* the caller builds another pipeline from the same arguments, passing the
\* same additionnal_filters list object
Rebuild ==
  /\ pc = "exhausted"
  /\ Len(history) < MaxRuns - 1
  /\ history' = Append(history, out)
  /\ pc' = "new"
  /\ self' = NoSelf
  /\ raised' = "none"
  /\ FreshStream(0, 0)
  /\ UNCHANGED <<args, images, callerFilters>>

Next ==
  \/ Construct
  \/ InterleaveOpen
  \/ InterleaveNext
  \/ ImageTransform
  \/ BatchPull
  \/ EndOfInput
  \/ Consume
  \/ Finish

\* the same, for a caller that builds another pipeline once one is exhausted
NextRuns ==
  \/ Next
  \/ Rebuild

----------------------------------------------------------------------------
(* Initial states: the caller's arguments and the files on disk *)

Img(H, W, C, labels, nanAt) ==
  [H |-> H, W |-> W, C |-> C, labels |-> labels, nanAt |-> nanAt]

\* n raw files 1..n, and their reference files n+1..2n when given as a list
RawFiles(n) == [k \in 1..n |-> k]

RefFiles(n) == [kind |-> "list", files |-> [k \in 1..n |-> n + k]]

\* the path of file f, when the caller does not choose one
DefaultPath(f) == [i \in 1..f |-> "a"]

\* a base configuration: every augmentation and filter off, an alternative
\* reader, one epoch, regular grid
ArgsBase ==
  [filelist_raw_data |-> RawFiles(1), filelist_reference_data |-> RefFiles(1),
   nbEpoch |-> 1, shuffle_samples |-> FALSE, patch_ratio_vs_input |-> Rat(1, 2),
   max_patches_per_image |-> MaxPatches, image_area_coverage_factor |-> Rat(2, 1),
   num_reader_threads |-> 1, apply_random_flip_left_right |-> FALSE,
   apply_random_flip_up_down |-> FALSE, apply_random_rot90 |-> FALSE,
   apply_random_brightness |-> None, apply_random_saturation |-> None,
   apply_random_contrast |-> None, apply_whitening |-> FALSE, batch_size |-> 1,
   use_alternative_imread |-> "opencv", balance_classes_distribution |-> FALSE,
   classes_entropy_threshold |-> Rat(6, 10), field_of_view |-> 0,
   manage_nan_values |-> "None", additionnal_filters_is_list |-> TRUE,
   crops_postprocess |-> "None", dtype |-> "float16", seed |-> 42,
   paths |-> [f \in 1..MaxNamedFiles |-> DefaultPath(f)]]

InitState(a, imgs, filters) ==
  /\ args = a
  /\ images = imgs
  /\ callerFilters = filters
  /\ self = NoSelf
  /\ pc = "new"
  /\ raised = "none"
  /\ srcPos = 0
  /\ shuffleBuf = <<>>
  /\ descStream = <<>>
  /\ slots = <<>>
  /\ cycleIdx = 1
  /\ inflight = <<>>
  /\ rngCount = 0
  /\ batchbuf = <<>>
  /\ prefetch = <<>>
  /\ producerDone = FALSE
  /\ out = <<>>
  /\ lastFilter = NoFilter
  /\ history = <<>>

\* Geometry: one raw/reference pair of any size; relative patch sizes (a
\* fraction of the height of the first image) and absolute ones; the regular
\* grid with fields of view 0, 1 and 3, the random mode with coverage factors
\* around 1.
InitGeom ==
  \E h \in 2..MaxDim, w \in 2..MaxDim, sh \in BOOLEAN,
     ratio \in {Rat(1, 2), Rat(3, 4), Rat(2, 1), Rat(3, 1)},
     maxp \in 1..MaxPatches,
     cov \in {Rat(1, 2), Rat(1, 1), Rat(2, 1)}, fov \in {0, 1, 3} :
    /\ sh => fov = 0
    /\ ~sh => (maxp = MaxPatches /\ cov = Rat(2, 1))
    /\ InitState([ArgsBase EXCEPT !.shuffle_samples = sh,
                                  !.patch_ratio_vs_input = ratio,
                                  !.max_patches_per_image = maxp,
                                  !.image_area_coverage_factor = cov,
                                  !.field_of_view = fov],
                 <<Img(h, w, 1, "halves", <<>>), Img(h, w, 1, "halves", <<>>)>>,
                 <<>>)

SpecGeom == InitGeom /\ [][Next]_vars

----------------------------------------------------------------------------
(* Properties of the geometry planner *)

OpenSlots == {i \in DOMAIN slots : slots[i].open}

Stride == self.patchSize - 2 * self.radius_of_view

\* C1: whenever patchSize <= min(H, W), every box planned by _generate_crops,
\* in random and in regular-grid mode, satisfies 0 <= top <= H - patchSize
\* and 0 <= left <= W - patchSize.
C1_BoxesInsideImage ==
  \A i \in OpenSlots :
    self.patchSize <= Min(slots[i].height, slots[i].width) =>
      \A k \in 1..Len(slots[i].boxes) :
        /\ 0 <= slots[i].boxes[k].top
        /\ slots[i].boxes[k].top <= slots[i].height - self.patchSize
        /\ 0 <= slots[i].boxes[k].left
        /\ slots[i].boxes[k].left <= slots[i].width - self.patchSize

\* a random plan of two boxes, one of them at the last row a draw can give
C1_Witness ==
  \E i \in OpenSlots :
    /\ self.shuffle_samples
    /\ Len(slots[i].boxes) = 2
    /\ slots[i].height - self.patchSize >= 2
    /\ slots[i].boxes[2].top = slots[i].height - self.patchSize - 1

\* the grid points (i*s, j*s) with i*s <= maxTop and j*s <= maxLeft
GridPoints(s, maxTop, maxLeft) ==
  {[top |-> i * s, left |-> j * s] :
     i \in {x \in 0..Max(maxTop, 0) : x * s <= maxTop},
     j \in {y \in 0..Max(maxLeft, 0) : y * s <= maxLeft}}

RegularCase(i) ==
  /\ ~self.shuffle_samples
  /\ Stride >= 1
  /\ self.patchSize <= Min(slots[i].height, slots[i].width)

\* C2 as stated: in regular-grid mode the boxes are exactly the grid points
\* (i*s, j*s), s = patchSize - 2*radius_of_view, with i*s <= H - patchSize and
\* j*s <= W - patchSize, the end positions included.
C2_ClosedGrid ==
  \A i \in OpenSlots :
    RegularCase(i) =>
      SeqToSet(slots[i].boxes) =
        GridPoints(Stride, slots[i].height - self.patchSize,
                   slots[i].width - self.patchSize)

\* C2 amended: the boxes are exactly the grid points with i*s < H - patchSize
\* and j*s < W - patchSize, each planned once; radius_of_view is
\* (field_of_view - 1) \div 2, 0 for a field of view of 0.
C2_HalfOpenGrid ==
  \A i \in OpenSlots :
    RegularCase(i) =>
      /\ SeqToSet(slots[i].boxes) =
           GridPoints(Stride, slots[i].height - self.patchSize - 1,
                      slots[i].width - self.patchSize - 1)
      /\ Len(slots[i].boxes) = Cardinality(SeqToSet(slots[i].boxes))
      /\ self.radius_of_view =
           (IF args.field_of_view = 0 THEN 0 ELSE (args.field_of_view - 1) \div 2)

\* a grid of several boxes on an image whose last row of patches starts at a
\* multiple of the stride, with a field of view that shortens the stride
C2_Witness ==
  \E i \in OpenSlots :
    /\ RegularCase(i)
    /\ self.radius_of_view = 1
    /\ (slots[i].height - self.patchSize) % Stride = 0
    /\ Len(slots[i].boxes) >= 2

RandomCase(i) == self.shuffle_samples /\ self.patchSize >= 1

\* image_area_coverage_factor * H * W / patchSize^2, rounded half up
RoundedQuotient(i) ==
  LET cov == self.image_area_coverage_factor
      num == cov.n * slots[i].height * slots[i].width
      den == cov.d * self.patchSize * self.patchSize
  IN (2 * num + den) \div (2 * den)

----------------------------------------------------------------------------
(* Reference modes, readers and the full-frame mode *)

\* Two files of 2x2 pixels in each reference mode (separate reference list,
\* reference embedded as last channel, no reference), each reader selector,
\* whole-image and half-size patches.
InitModes ==
  \E kind \in {"list", "None", "minus1"},
     reader \in {"False", "None", "opencv", "gdal", "rasterio"},
     ratio \in {Rat(1, 1), Rat(1, 2)}, maxp \in 1..MaxPatches,
     white \in BOOLEAN, ep \in 1..MaxEpoch :
    LET raw == Img(2, 2, IF kind = "None" THEN 2 ELSE 1, "checker", <<>>)
    IN InitState([ArgsBase EXCEPT !.filelist_raw_data = RawFiles(2),
                                  !.filelist_reference_data =
                                     IF kind = "list" THEN RefFiles(2)
                                     ELSE [kind |-> kind, files |-> <<>>],
                                  !.use_alternative_imread = reader,
                                  !.patch_ratio_vs_input = ratio,
                                  !.max_patches_per_image = maxp,
                                  !.apply_whitening = white,
                                  !.nbEpoch = ep],
                 IF kind = "list" THEN <<raw, raw, raw, raw>> ELSE <<raw, raw>>,
                 <<>>)

SpecModes == InitModes /\ [][Next]_vars

\* every transformed crop that has left the map stage
Delivered(batches) == UNION {SeqToSet(batches[b]) : b \in 1..Len(batches)}

Emitted == Delivered(out)

NbEmitted == SumOver(DOMAIN out, [b \in DOMAIN out |-> Len(out[b])])

\* the file a crop was cut from
FileOf(crop) == crop.px[<<1, 1>>][1].f

\* C4 as stated: patch_ratio_vs_input = 1 forces max_patches_per_image to 1
\* and selects the full-frame mode, construction succeeds, and the stream
\* yields one crop per descriptor and epoch, the whole loaded image.
C4_FullFrameStream ==
  (args.patch_ratio_vs_input = Rat(1, 1) /\ pc # "new") =>
    /\ self.max_patches_per_image = 1
    /\ self.full_frame_mode
    /\ pc \notin {"error", "failed"}
    /\ pc = "exhausted" =>
         /\ NbEmitted = Len(args.filelist_raw_data) * args.nbEpoch
         /\ \A e \in Emitted :
              /\ e.crop.h = images[FileOf(e.crop)].H
              /\ e.crop.w = images[FileOf(e.crop)].W

----------------------------------------------------------------------------
(* The filter chain *)

\* One 5x5 image cut into four 2x2 crops on the regular grid; label maps
\* that give constant, half/half and 3/1 reference crops, a NaN in the first
\* crop or none; NaN rejection and class balancing on or off, thresholds 0.6
\* and 0.9, and every list of at most two caller predicates.
InitFilter ==
  \E labels \in {"const", "checker", "corner"},
     nanAt \in {<<>>, <<1, 1, 1>>},
     nan \in {"None", "avoid"}, bal \in BOOLEAN,
     thr \in {Rat(1, 100), Rat(6, 10), Rat(9, 10)},
     kind \in {"list", "minus1"},
     user \in {<<>>, <<"user_first_is_first_row">>, <<"user_label_one">>,
               <<"user_first_is_first_row", "user_label_one">>,
               <<"user_label_one", "user_first_is_first_row">>} :
    /\ ~bal => thr = Rat(6, 10)
    /\ InitState([ArgsBase EXCEPT !.manage_nan_values = nan,
                                  !.balance_classes_distribution = bal,
                                  !.classes_entropy_threshold = thr,
                                  !.filelist_reference_data =
                                     IF kind = "list" THEN RefFiles(1)
                                     ELSE [kind |-> kind, files |-> <<>>]],
                 IF kind = "list"
                   THEN <<Img(5, 5, 1, labels, nanAt), Img(5, 5, 1, labels, <<>>)>>
                   ELSE <<Img(5, 5, 1, labels, nanAt)>>,
                 user)

SpecFilter == InitFilter /\ [][Next]_vars

Permuted(seq, perm) == [i \in 1..Len(seq) |-> seq[perm[i]]]

\* C5: the filter chain accepts a crop iff every predicate of the chain
\* (NaN filter, entropy filter, caller predicates) is true of it; the empty
\* chain accepts every crop; the verdict is the same for every permutation of
\* the chain.
C5_FilterChainIsConjunction ==
  lastFilter.valid =>
    LET chain == self.additionnal_filters
    IN /\ lastFilter.accepted =
            (\A i \in 1..Len(chain) : ApplyFilter(chain[i], self, lastFilter.crop))
       /\ chain = <<>> => lastFilter.accepted
       /\ \A perm \in Permutations(1..Len(chain)) :
            crop_filter([self EXCEPT !.additionnal_filters = Permuted(chain, perm)],
                        lastFilter.crop) = lastFilter.accepted

\* a crop that the first predicate of a chain of three accepts and a later
\* one rejects
C5_Witness ==
  /\ lastFilter.valid
  /\ ~lastFilter.accepted
  /\ Len(self.additionnal_filters) >= 3
  /\ ApplyFilter(self.additionnal_filters[1], self, lastFilter.crop)

\* the reference channels of a crop, flattened
ReferenceSample(crop) ==
  Flatten(SliceChannels(crop, self.single_image_raw_depth,
                        self.single_image_reference_depth))

ConstantReference(crop) ==
  LET ref == ReferenceSample(crop)
  IN /\ Len(ref) > 0
     /\ \A i \in 1..Len(ref) : ~ref[i].nan /\ ref[i].val = ref[1].val

EntropyFilterOn == "balance_classes_entropy" \in SeqToSet(self.additionnal_filters)

\* C11: with class balancing on and reference channels present, a crop whose
\* reference is one constant value has normalised entropy 0 and the entropy
\* filter rejects it, whatever the positive threshold.
C11_ConstantReferenceEntropyZero ==
  (lastFilter.valid /\ EntropyFilterOn /\ ConstantReference(lastFilter.crop)) =>
    /\ EntropyTimesN(ReferenceSample(lastFilter.crop)) = 0
    /\ ~balance_classes_entropy(self, lastFilter.crop)
    /\ ~lastFilter.accepted

\* the dtypes of the values of a tensor
DtypesOf(t) == UNION {{t.px[p][k].dtype : k \in 1..Len(t.px[p])} : p \in Positions(t)}

\* C18 as stated: in each reference mode every emitted batch holds batch_size
\* crops of shape (patchSize, patchSize, raw_depth + reference_depth), the
\* reference depth being 0 without reference, and every value of it is in
\* the configured dtype.
C18_BatchShapeAndDtype ==
  \A b \in SeqToSet(out) :
    /\ Len(b) = self.batch_size
    /\ \A i \in 1..Len(b) :
         /\ b[i].result.h = self.patchSize
         /\ b[i].result.w = self.patchSize
         /\ Depth(b[i].result) =
              self.single_image_raw_depth + self.single_image_reference_depth
         /\ DtypesOf(b[i].result) = {self.dtype}

\* C26 as stated: after a successful construction in crop mode, for a
\* patch_ratio_vs_input in (0,1) or above 1, the patch size is at least 1 and
\* at most the smaller side of the first raw image.
C26_PatchSizeWithinFirstImage ==
  LET r == args.patch_ratio_vs_input
      raw0 == images[args.filelist_raw_data[1]]
  IN (/\ pc \in {"configured", "streaming", "exhausted", "failed"}
      /\ ~self.full_frame_mode
      /\ r.n > 0
      /\ r.n # r.d) =>
       /\ 1 <= self.patchSize
       /\ self.patchSize <= Min(raw0.H, raw0.W)

\* C27 as stated: for every configuration the constructor accepts in crop
\* mode, the stride of the regular grid, patchSize - 2*radius_of_view, is at
\* least 1.
C27_StrideAtLeastOne ==
  (/\ pc \in {"configured", "streaming", "exhausted", "failed"}
   /\ ~self.full_frame_mode) =>
    Stride >= 1

\* C17 as stated: whenever patch_ratio_vs_input is >= 1 or < 0, the
\* constructor leaves max_patches_per_image at 1, whatever the caller passed.
C17_LargeRatioForcesOnePatch ==
  (/\ self # NoSelf
   /\ \/ args.patch_ratio_vs_input.n >= args.patch_ratio_vs_input.d
      \/ args.patch_ratio_vs_input.n < 0) =>
    self.max_patches_per_image = 1

\* C15 as stated: with separate raw and reference lists and
\* use_alternative_imread=False, construction selects the TensorFlow native
\* loader, so an image loading function is defined when the stream is built.
C15_FalseSelectsNativeLoader ==
  (/\ pc # "new"
   /\ args.filelist_reference_data.kind = "list"
   /\ args.use_alternative_imread = "False"
   /\ args.patch_ratio_vs_input = Rat(1, 2)) =>
    /\ self.image_loading_fn = "load_from_tf"
    /\ pc # "error"

----------------------------------------------------------------------------
(* Arguments __init__ refuses *)

\* One 2x2 raw image and, when given, a reference image of the same size, one
\* row taller or one column wider; coverage factors at, below and above 0; a
\* list or another object as additionnal_filters; fields of view 0, odd and
\* even; the three reference modes.
InitConfig ==
  \E cov \in {Rat(-1, 1), Rat(0, 1), Rat(1, 1)}, isList \in BOOLEAN,
     fov \in {0, 1, 2, 4}, dH \in 0..1, dW \in 0..1,
     kind \in {"list", "None", "minus1"}, ep \in 1..MaxEpoch, bs \in 1..2 :
    /\ kind # "list" => (dH = 0 /\ dW = 0)
    /\ InitState([ArgsBase EXCEPT !.image_area_coverage_factor = cov,
                                  !.additionnal_filters_is_list = isList,
                                  !.field_of_view = fov,
                                  !.filelist_raw_data = RawFiles(2),
                                  !.filelist_reference_data =
                                     IF kind = "list" THEN RefFiles(2)
                                     ELSE [kind |-> kind, files |-> <<>>],
                                  !.nbEpoch = ep,
                                  !.batch_size = bs],
                 IF kind = "list"
                   THEN <<Img(2, 2, 1, "checker", <<>>), Img(2, 2, 1, "checker", <<>>),
                          Img(2 + dH, 2 + dW, 1, "checker", <<>>),
                          Img(2, 2, 1, "checker", <<>>)>>
                   ELSE [k \in 1..2 |->
                           Img(2, 2, IF kind = "None" THEN 2 ELSE 1, "checker", <<>>)],
                 <<>>)

SpecConfig == InitConfig /\ [][Next]_vars

\* the arguments C14 lists as refused
RefusedArguments ==
  \/ args.image_area_coverage_factor.n <= 0
  \/ ~args.additionnal_filters_is_list
  \/ (args.field_of_view # 0 /\ args.field_of_view % 2 = 0)
  \/ /\ args.filelist_reference_data.kind = "list"
     /\ \/ images[args.filelist_raw_data[1]].H
             # images[args.filelist_reference_data.files[1]].H
        \/ images[args.filelist_raw_data[1]].W
             # images[args.filelist_reference_data.files[1]].W

\* C14: with a coverage factor <= 0, an additionnal_filters that is not a
\* list, an even non-zero field_of_view, or first raw and reference images of
\* different height or width, __init__ raises a ValueError and no dataset is
\* built: the pipeline is never configured and nothing is ever read.
C14_RefusedArgumentsRaise ==
  RefusedArguments =>
    /\ pc \in {"new", "error"}
    /\ pc = "error" => SubSeq(raised, 1, 10) = "ValueError"
    /\ self = NoSelf
    /\ descStream = <<>> /\ slots = <<>> /\ out = <<>>

\* an even field_of_view, every other argument valid, refused
C14_Witness ==
  /\ pc = "error"
  /\ raised = "ValueError: field_of_view"
  /\ args.field_of_view = 4
  /\ args.image_area_coverage_factor.n > 0
  /\ args.additionnal_filters_is_list

----------------------------------------------------------------------------
(* Descriptors: paths joined with the separator and split by the loader *)

\* the paths of at most n characters, "#" being the character of the separator
PathsUpTo(n) == UNION {[1..k -> {"a", "#"}] : k \in 1..n}

\* One raw/reference pair of 2x2 images under any two different paths.
InitPaths ==
  \E string1 \in PathsUpTo(MaxPath), string2 \in PathsUpTo(MaxPath),
     ep \in 1..MaxEpoch, bs \in 1..2 :
    /\ string1 # string2
    /\ InitState([ArgsBase EXCEPT !.paths = <<string1, string2>>,
                                  !.nbEpoch = ep,
                                  !.batch_size = bs],
                 <<Img(2, 2, 1, "checker", <<>>), Img(2, 2, 1, "checker", <<>>)>>,
                 <<>>)

SpecPaths == InitPaths /\ [][Next]_vars

Contains(s, sep) ==
  \E i \in 1..(Len(s) - Len(sep) + 1) : SubSeq(s, i, i + Len(sep) - 1) = sep

\* the k-th raw and reference paths the caller passed
RawPath(k) == args.paths[args.filelist_raw_data[k]]

RefPath(k) == args.paths[args.filelist_reference_data.files[k]]

\* the descriptor k splits back into the two paths it was joined from, and
\* the loader reads the raw file from the first and the reference file from
\* the second
SplitsBack(k) ==
  /\ splitted_filenames(self.datasetFiles[k]) = <<RawPath(k), RefPath(k)>>
  /\ ReadDescriptor(self, self.datasetFiles[k]) =
       [raw |-> FileAt(RawPath(k)), ref |-> FileAt(RefPath(k))]

\* C20 as stated: every descriptor, whatever its two paths, splits back into
\* the (raw, reference) pair it was joined from, and the loader reads the raw
\* image from the first part and the reference image from the second.
C20_SplitInvertsJoin ==
  (pc \in {"configured", "streaming", "exhausted", "failed"}
   /\ self.image_pairs_raw_ref_input) =>
    /\ \A k \in DOMAIN self.datasetFiles : SplitsBack(k)
    /\ pc # "failed"

\* no separator inside either path, and none formed across the join
SeparatorOnlyAtJoin(string1, string2) ==
  /\ ~Contains(string1, filenames_separator)
  /\ ~Contains(string2, filenames_separator)
  /\ string1[Len(string1)] # filenames_separator[1]

\* C20, amended: the descriptor splits back into its pair, and the loader
\* reads the raw file from the first part and the reference file from the
\* second, when neither path contains the separator and the raw path does
\* not end with the separator's character; the stream then reads its files.
C20_SplitInvertsJoinOfCleanPaths ==
  (pc \in {"configured", "streaming", "exhausted", "failed"}
   /\ self.image_pairs_raw_ref_input) =>
    \A k \in DOMAIN self.datasetFiles :
      SeparatorOnlyAtJoin(RawPath(k), RefPath(k)) =>
        /\ SplitsBack(k)
        /\ pc # "failed"

\* a descriptor whose reference path starts with the separator's character
\* was split and its two files are being read
C20_Witness ==
  /\ self.image_pairs_raw_ref_input
  /\ RefPath(1)[1] = "#"
  /\ Contains(RawPath(1), <<"#">>)
  /\ \E i \in OpenSlots : slots[i].desc = [raw |-> 1, ref |-> 2]

----------------------------------------------------------------------------
(* NaN values *)

\* One 5x5 image cut into four 2x2 crops, one pixel of it NaN, in the raw
\* file or in the reference file; the three NaN modes; with a reference list
\* or without reference; flips and whitening on or off; batches of 1 or 2.
InitNan ==
  \E nan \in {"None", "avoid", "zeros"}, kind \in {"list", "minus1"},
     nanAt \in {<<1, 1, 1>>, <<3, 4, 1>>}, inRef \in BOOLEAN,
     flip \in BOOLEAN, white \in BOOLEAN, bs \in 1..2 :
    /\ inRef => kind = "list"
    /\ InitState([ArgsBase EXCEPT !.manage_nan_values = nan,
                                  !.filelist_reference_data =
                                     IF kind = "list" THEN RefFiles(1)
                                     ELSE [kind |-> kind, files |-> <<>>],
                                  !.apply_random_flip_left_right = flip,
                                  !.apply_random_flip_up_down = flip,
                                  !.apply_whitening = white,
                                  !.batch_size = bs],
                 IF kind = "list"
                   THEN <<Img(5, 5, 1, "checker", IF inRef THEN <<>> ELSE nanAt),
                          Img(5, 5, 1, "checker", IF inRef THEN nanAt ELSE <<>>)>>
                   ELSE <<Img(5, 5, 1, "checker", nanAt)>>,
                 <<>>)

SpecNan == InitNan /\ [][Next]_vars

\* every crop that went past the filter stage
PastFilter ==
  SeqToSet(inflight) \cup SeqToSet(batchbuf) \cup Delivered(prefetch) \cup Emitted

\* C12: in mode 'avoid' a crop with a NaN in any channel is rejected by the
\* filter stage and is in no batch; in mode 'zeros' a NaN does not reject
\* the crop (with no other filter it reaches the output), its result holds
\* no NaN, and the result is the one the other transforms give of the crop
\* with its NaNs already set to 0.
C12_NanAvoidedOrZeroed ==
  /\ self.manage_nan_values = "avoid" =>
       /\ (lastFilter.valid /\ AnyNan(lastFilter.crop)) => ~lastFilter.accepted
       /\ \A e \in PastFilter : ~AnyNan(e.crop)
  /\ self.manage_nan_values = "zeros" =>
       /\ (lastFilter.valid /\ self.additionnal_filters = <<>>) => lastFilter.accepted
       /\ \A e \in Emitted :
            /\ ~AnyNan(e.result)
            /\ e.result = image_transform([self EXCEPT !.manage_nan_values = "None"],
                                          replace_nans_by_zeros(e.crop), e.seed, e.rot)
       /\ (pc = "exhausted" /\ self.batch_size = 1) =>
            \E e \in Emitted : AnyNan(e.crop)

\* mode 'zeros': the crop that held the NaN was delivered, flipped and
\* standardised
C12_Witness ==
  /\ pc = "exhausted"
  /\ self.manage_nan_values = "zeros"
  /\ self.apply_whitening
  /\ \E e \in Emitted : AnyNan(e.crop) /\ FlipDecision(e.seed)
                         /\ self.apply_random_flip_left_right

\* C19 as stated: with manage_nan_values=None the stream raises when it
\* meets a crop holding a NaN, and no batch holding a NaN reaches the
\* consumer.
C19_NanRaisesWithoutMode ==
  self.manage_nan_values = "None" =>
    /\ (lastFilter.valid /\ AnyNan(lastFilter.crop)) => pc = "failed"
    /\ \A e \in Emitted : ~AnyNan(e.crop) /\ ~AnyNan(e.result)

----------------------------------------------------------------------------
(* Two pipelines built from the same arguments *)

\* One 4x5 raw/reference pair cut into two 2x2 crops on the regular grid, one
\* epoch, no shuffling; no augmentation, each augmentation alone, or all six;
\* two master seeds.  The caller builds a second pipeline from the same
\* arguments once the first is exhausted.
InitRuns ==
  \E aug \in {{}, {"lr"}, {"ud"}, {"rot"}, {"br"}, {"sat"}, {"con"},
              {"lr", "ud", "rot", "br", "sat", "con"}},
     seed \in {42, 43} :
    InitState([ArgsBase EXCEPT !.apply_random_flip_left_right = "lr" \in aug,
                               !.apply_random_flip_up_down = "ud" \in aug,
                               !.apply_random_rot90 = "rot" \in aug,
                               !.apply_random_brightness =
                                  IF "br" \in aug THEN Rat(1, 2) ELSE None,
                               !.apply_random_saturation =
                                  IF "sat" \in aug THEN Rat(1, 2) ELSE None,
                               !.apply_random_contrast =
                                  IF "con" \in aug THEN Rat(1, 2) ELSE None,
                               !.batch_size = 2,
                               !.seed = seed],
              <<Img(4, 5, 1, "checker", <<>>), Img(4, 5, 1, "checker", <<>>)>>,
              <<>>)

SpecRuns == InitRuns /\ [][NextRuns]_vars

\* the tensors of a sequence of batches, in order
Results(batches) ==
  [b \in 1..Len(batches) |-> [k \in 1..Len(batches[b]) |-> batches[b][k].result]]

\* C6 as stated: with the same master seed, epoch count and descriptor list
\* and shuffle_samples=False, two pipelines built independently deliver
\* identical batches in the same order, whatever augmentations are enabled.
C6_SameBatchesOnEveryRun ==
  (pc = "exhausted" /\ ~args.shuffle_samples /\ Len(history) >= 1) =>
    Results(out) = Results(history[1])

\* every crop transformed so far, by this pipeline or an earlier one
Transformed ==
  {inflight[i] : i \in {j \in 1..Len(inflight) : inflight[j].done}}
  \cup SeqToSet(batchbuf) \cup Delivered(prefetch) \cup Emitted
  \cup UNION {Delivered(history[h]) : h \in 1..Len(history)}

\* C7 as stated: one seed pair is drawn per crop, and every random decision
\* of the stage-A and stage-B transforms applied to the crop is a function of
\* that seed pair only: equal crops transformed under equal seed pairs give
\* equal results, and the crops of one pipeline have distinct seed pairs.
C7_DecisionsFromSeedPairOnly ==
  /\ \A e1 \in Transformed, e2 \in Transformed :
       (e1.seed = e2.seed /\ e1.crop = e2.crop) => e1.result = e2.result
  /\ \A i \in 1..Len(inflight), j \in 1..Len(inflight) :
       (i # j /\ inflight[i].done /\ inflight[j].done) =>
         inflight[i].seed # inflight[j].seed

\* the file position a channel value was read at
PositionOf(v) == <<v.r, v.c>>

\* C13: for a crop with reference channels, with random flip-left-right
\* enabled alone or with the other geometric transforms, every channel of an
\* output pixel, raw and reference, was read at the same position of the
\* image: raw and reference stay aligned.
C13_ReferenceStaysAligned ==
  (self.apply_random_flip_left_right /\ ~self.no_reference) =>
    \A e \in Transformed :
      \A p \in Positions(e.result) :
        \A k \in 1..Len(e.result.px[p]) :
          PositionOf(e.result.px[p][k]) = PositionOf(e.result.px[p][1])

\* a delivered crop with a reference channel that was mirrored left-right
C13_Witness ==
  /\ self.apply_random_flip_left_right
  /\ ~self.no_reference
  /\ \E e \in Emitted :
       /\ FlipDecision(e.seed)
       /\ Depth(e.result) = 2
       /\ e.result.px[<<1, 1>>][2].f # e.result.px[<<1, 1>>][1].f
       /\ PositionOf(e.result.px[<<1, 1>>][2]) # PositionOf(e.crop.px[<<1, 1>>][2])

----------------------------------------------------------------------------
(* The order of the crops without shuffling *)

\* Three raw/reference pairs cut into crops of 2x2: 1 or 2 crops of the
\* first and of the third (heights 4 and 5), 1 or 3 of the second (heights 4
\* and 7); 1 to 3 interleave slots, one epoch, no shuffling; the caller
\* builds a second pipeline once the first is exhausted.
InitOrder ==
  \E h1 \in {4, 5}, h2 \in {4, 7}, h3 \in {4, 5}, threads \in 1..3 :
    InitState([ArgsBase EXCEPT !.filelist_raw_data = RawFiles(3),
                               !.filelist_reference_data = RefFiles(3),
                               !.patch_ratio_vs_input = Rat(2, 1),
                               !.num_reader_threads = threads],
              [k \in 1..6 |-> Img(IF k \in {1, 4} THEN h1 ELSE IF k \in {2, 5} THEN h2 ELSE h3,
                                  4, 1, "checker", <<>>)],
              <<>>)

SpecOrder == InitOrder /\ [][NextRuns]_vars

RECURSIVE Concat(_)
Concat(seqs) == IF seqs = <<>> THEN <<>> ELSE Head(seqs) \o Concat(Tail(seqs))

\* the crops in the order the interleave gave them, for a stream that is not
\* shuffled
CropsInOrder(batches, rest) ==
  LET all == Concat(batches) \o rest
  IN [k \in 1..Len(all) |-> all[k].crop]

EmissionOrder == CropsInOrder(out \o prefetch, batchbuf \o inflight)

\* C21: without shuffling, between two consecutive crops of one file at most
\* num_reader_threads - 1 crops are emitted, each of a different file (one
\* crop per open file per round); and a pipeline built again from the same
\* arguments delivers the crops in the same order.
C21_RoundRobinOrder ==
  (~self.shuffle_samples /\ pc \in {"streaming", "exhausted"}) =>
    /\ LET order == EmissionOrder
       IN \A i \in 1..Len(order), j \in 1..Len(order) :
            (/\ i < j
             /\ FileOf(order[i]) = FileOf(order[j])
             /\ \A k \in (i + 1)..(j - 1) : FileOf(order[k]) # FileOf(order[i])) =>
              /\ j - i - 1 <= self.num_reader_threads - 1
              /\ \A k \in (i + 1)..(j - 1), l \in (i + 1)..(j - 1) :
                   k # l => FileOf(order[k]) # FileOf(order[l])
    /\ (pc = "exhausted" /\ Len(history) >= 1) =>
         CropsInOrder(out, <<>>) = CropsInOrder(history[1], <<>>)

\* a second run ended, in which the third file replaced the first and its
\* crop came between two crops of the second
C21_Witness ==
  /\ pc = "exhausted"
  /\ Len(history) >= 1
  /\ self.num_reader_threads = 2
  /\ LET order == EmissionOrder
     IN \E i \in 1..(Len(order) - 2) :
          /\ FileOf(order[i]) = 2
          /\ FileOf(order[i + 1]) = 3
          /\ FileOf(order[i + 2]) = 2

----------------------------------------------------------------------------
(* The stream of descriptors and of batches *)

\* Two 2x2 raw/reference pairs, one 1x1 crop per image, every epoch count,
\* one or two reader threads; batch sizes 1 to 3 without shuffling, 1 and 3
\* with it.
Init ==
  \E sh \in BOOLEAN, ep \in 1..MaxEpoch, bs \in 1..3, threads \in 1..2 :
    /\ sh => bs # 2
    /\ InitState([ArgsBase EXCEPT !.filelist_raw_data = RawFiles(2),
                               !.filelist_reference_data = RefFiles(2),
                               !.shuffle_samples = sh,
                               !.nbEpoch = ep,
                               !.max_patches_per_image = 1,
                               !.batch_size = bs,
                               !.num_reader_threads = threads,
                               !.apply_random_flip_left_right = TRUE],
              [k \in 1..4 |-> Img(2, 2, 1, "checker", <<>>)],
              <<>>)

Spec == Init /\ [][Next]_vars

\* C8 as stated: with shuffling and a finite epoch count E over N
\* descriptors, the descriptor stream is E consecutive passes, each pass a
\* permutation of the descriptor list.
C8_EveryPassIsAPermutation ==
  (self.shuffle_samples /\ NbFiles > 0) =>
    \A k \in 1..(Len(descStream) \div NbFiles) :
      {descStream[i] : i \in ((k - 1) * NbFiles + 1)..(k * NbFiles)} = 1..NbFiles

\* C16 as stated: with shuffle_samples=False and the transform stage run by
\* parallel calls, the k-th crop in output order received the k-th seed pair
\* the generator issued, whatever the interleaving of the calls.
C16_SeedOrderIsOutputOrder ==
  ~self.shuffle_samples =>
    \A b \in DOMAIN out : \A i \in DOMAIN out[b] :
      out[b][i].seed = make_seeds(self.seed, (b - 1) * self.batch_size + i - 1)

ShapeOf(t) == <<t.h, t.w, Depth(t)>>

\* C9: every batch handed to the prefetch buffer or to the consumer holds
\* exactly batch_size crops of one shape, with or without shuffling; the
\* crops left over at the end of the stream are dropped: the consumer gets
\* floor(T / batch_size) batches for the T crops that were transformed.
C9_OnlyFullBatches ==
  /\ \A b \in SeqToSet(prefetch) \cup SeqToSet(out) :
       /\ Len(b) = self.batch_size
       /\ \A i \in 1..Len(b), j \in 1..Len(b) :
            ShapeOf(b[i].result) = ShapeOf(b[j].result)
  /\ pc = "exhausted" =>
       /\ Len(out) = rngCount \div self.batch_size
       /\ batchbuf = <<>>

\* a shuffled stream that ended with crops left over after its last batch
C9_Witness ==
  /\ pc = "exhausted"
  /\ self.shuffle_samples
  /\ rngCount % self.batch_size # 0
  /\ Len(out) >= 1

----------------------------------------------------------------------------
(* Batches across epochs *)

\* C28: with one surviving crop per descriptor, a finished run of E epochs
\* over N descriptors has transformed T = N * E crops and delivered
\* floor(T / batch_size) batches, all full: the crops are batched across the
\* epoch boundaries and at most batch_size - 1 crops are dropped in all.
C28_BatchesSpanEpochs ==
  pc = "exhausted" =>
    LET T == Len(self.datasetFiles) * self.nbEpoch
    IN /\ rngCount = T
       /\ Len(out) = T \div self.batch_size
       /\ NbEmitted = Len(out) * self.batch_size
       /\ T - NbEmitted <= self.batch_size - 1

\* a finished run of two epochs whose batch of three holds two crops of the
\* same file, one of each epoch, and which dropped the last crop
C28_Witness ==
  /\ pc = "exhausted"
  /\ self.nbEpoch = 2
  /\ self.batch_size = 3
  /\ rngCount = 4
  /\ \E b \in 1..Len(out) : \E i \in 1..Len(out[b]), j \in 1..Len(out[b]) :
       /\ i < j
       /\ FileOf(out[b][i].crop) = FileOf(out[b][j].crop)

----------------------------------------------------------------------------
(* The two flips *)

\* C29: with random flip-left-right and random flip-up-down both enabled
\* (and no rotation), both decide on the crop's seed pair: every transformed
\* crop is either mirrored on both axes, when the decision of its seed pair
\* is to flip, or on none; it is never mirrored on one axis only.
C29_BothFlipsOrNone ==
  (/\ pc \in {"streaming", "exhausted"}
   /\ self.apply_random_flip_left_right
   /\ self.apply_random_flip_up_down
   /\ ~self.apply_random_rot90) =>
    \A e \in Transformed :
      LET h == e.crop.h
          w == e.crop.w
          none == \A p \in Positions(e.result) :
                    PositionOf(e.result.px[p][1]) = PositionOf(e.crop.px[p][1])
          both == \A p \in Positions(e.result) :
                    PositionOf(e.result.px[p][1])
                      = PositionOf(e.crop.px[<<h + 1 - p[1], w + 1 - p[2]>>][1])
      IN /\ FlipDecision(e.seed) => both
         /\ ~FlipDecision(e.seed) => none

\* with both flips enabled, a delivered crop mirrored on both axes and one
\* left as it was
C29_Witness ==
  /\ self.apply_random_flip_left_right
  /\ self.apply_random_flip_up_down
  /\ \E e \in Emitted :
       /\ FlipDecision(e.seed)
       /\ PositionOf(e.result.px[<<1, 1>>][1]) = PositionOf(e.crop.px[<<2, 2>>][1])
  /\ \E e \in Emitted :
       /\ ~FlipDecision(e.seed)
       /\ e.result.px[<<1, 1>>][1].r = e.crop.px[<<1, 1>>][1].r

----------------------------------------------------------------------------
(* Raw and reference lists of different lengths *)

\* Raw files 1..nraw and reference files 4..(3+nref) of 2x2 pixels, one crop
\* each, for every pair of lengths from 0 to 3; one or two epochs, one or
\* two reader threads.
InitZip ==
  \E nraw \in 0..3, nref \in 0..3, ep \in 1..2, threads \in 1..2 :
    InitState([ArgsBase EXCEPT !.filelist_raw_data = [k \in 1..nraw |-> k],
                               !.filelist_reference_data =
                                  [kind |-> "list", files |-> [k \in 1..nref |-> 3 + k]],
                               !.nbEpoch = ep,
                               !.max_patches_per_image = 1,
                               !.num_reader_threads = threads],
              [k \in 1..6 |-> Img(2, 2, 1, "checker", <<>>)],
              <<>>)

SpecZip == InitZip /\ [][Next]_vars

NbRaw == Len(args.filelist_raw_data)

NbRef == Len(args.filelist_reference_data.files)

\* the k-th raw file with the k-th reference file
PairAt(k) ==
  [raw |-> args.filelist_raw_data[k], ref |-> args.filelist_reference_data.files[k]]

\* the raw and the reference file a crop was read from
PairOf(crop) ==
  [raw |-> FileOf(crop), ref |-> crop.px[<<1, 1>>][Len(crop.px[<<1, 1>>])].f]

\* what C30 says of a pair of lists, once the constructor has run
ZipTruncates ==
  /\ pc \notin {"error", "failed"}
  /\ Len(self.datasetFiles) = Min(NbRaw, NbRef)
  /\ \A k \in 1..Len(self.datasetFiles) :
       ReadDescriptor(self, self.datasetFiles[k]) = PairAt(k)
  /\ \A i \in OpenSlots :
       \E k \in 1..Min(NbRaw, NbRef) : slots[i].desc = PairAt(k)
  /\ \A e \in PastFilter :
       \E k \in 1..Min(NbRaw, NbRef) : PairOf(e.crop) = PairAt(k)
  /\ pc = "exhausted" => Len(descStream) = Min(NbRaw, NbRef) * self.nbEpoch

\* C30 as stated: raw and reference lists of equal or different lengths
\* (not both empty) are accepted without error, the k-th descriptor pairs
\* the k-th raw path with the k-th reference path, there are
\* min(len(raw), len(ref)) descriptors per epoch and no file beyond them is
\* read.
C30_ZipTruncates ==
  (/\ pc # "new"
   /\ args.filelist_reference_data.kind = "list"
   /\ (NbRaw >= 1 \/ NbRef >= 1)) => ZipTruncates

\* C30 for non-empty lists; with an empty raw or reference list the
\* constructor raises IndexError.
C30_ZipTruncatesNonEmptyLists ==
  (pc # "new" /\ args.filelist_reference_data.kind = "list") =>
    IF NbRaw >= 1 /\ NbRef >= 1 THEN ZipTruncates
    ELSE pc = "error" /\ raised = "IndexError: list index out of range"

\* three raw files and two reference files: a run of two epochs ended after
\* four descriptors, with crops of the second pair delivered
C30_Witness ==
  /\ pc = "exhausted"
  /\ NbRaw = 3
  /\ NbRef = 2
  /\ self.nbEpoch = 2
  /\ Len(descStream) = 4
  /\ \E e \in Emitted : PairOf(e.crop) = [raw |-> 2, ref |-> 5]

----------------------------------------------------------------------------
(* Stage B and the reference channels *)

\* One 4x5 image cut into two 2x2 crops, its reference in a second file or
\* in its last channel; whitening, brightness, saturation and contrast each
\* on or off; the left-right flip on or off; with or without a caller
\* post-process.
InitPhoto ==
  \E white \in BOOLEAN, br \in BOOLEAN, sat \in BOOLEAN, con \in BOOLEAN,
     lr \in BOOLEAN, post \in {"None", "user"}, kind \in {"list", "minus1"} :
    InitState([ArgsBase EXCEPT !.filelist_reference_data =
                                  IF kind = "list" THEN RefFiles(1)
                                  ELSE [kind |-> kind, files |-> <<>>],
                               !.apply_whitening = white,
                               !.apply_random_brightness =
                                  IF br THEN Rat(1, 2) ELSE None,
                               !.apply_random_saturation =
                                  IF sat THEN Rat(1, 2) ELSE None,
                               !.apply_random_contrast =
                                  IF con THEN Rat(1, 2) ELSE None,
                               !.apply_random_flip_left_right = lr,
                               !.crops_postprocess = post],
              IF kind = "list"
                THEN <<Img(4, 5, 1, "checker", <<>>), Img(4, 5, 1, "checker", <<>>)>>
                ELSE <<Img(4, 5, 2, "checker", <<>>)>>,
              <<>>)

SpecPhoto == InitPhoto /\ [][Next]_vars

\* the reference channels of a composite tensor
ReferenceChannels(obj, t) ==
  SliceChannels(t, obj.single_image_raw_depth, obj.single_image_reference_depth)

\* C24: for every transformed crop with a reference, the tensor handed to the
\* post-process has the raw channels followed by the reference channels, and
\* its reference channels are those of the crop after stage A, cast to the
\* configured dtype: none of standardization, brightness, saturation and
\* contrast has touched them.
C24_StageBKeepsReference ==
  (pc \in {"streaming", "exhausted"} /\ ~self.no_reference) =>
    \A e \in Transformed :
      LET pre == image_transform([self EXCEPT !.crops_postprocess = "None"],
                                 e.crop, e.seed, e.rot)
          afterA == stage_A(self, e.crop, e.seed, e.rot)
      IN /\ e.result = post_process_fn(self, pre, e.seed)
         /\ Depth(pre) = self.single_image_raw_depth + self.single_image_reference_depth
         /\ ReferenceChannels(self, pre) = Cast(ReferenceChannels(self, afterA), self.dtype)
         /\ \A p \in Positions(pre) :
              \A k \in (self.single_image_raw_depth + 1)..Depth(pre) :
                pre.px[p][k].ops = <<>>

\* a delivered crop with a reference, flipped, whitened and changed by the
\* three photometric transforms
C24_Witness ==
  /\ ~self.no_reference
  /\ self.apply_whitening
  /\ self.apply_random_brightness # None
  /\ self.apply_random_saturation # None
  /\ self.apply_random_contrast # None
  /\ \E e \in Emitted :
       /\ FlipDecision(e.seed)
       /\ self.apply_random_flip_left_right
       /\ Len(e.result.px[<<1, 1>>][1].ops) >= 4

----------------------------------------------------------------------------
(* The caller's list of filters *)

\* One 4x5 raw/reference pair cut into two 2x2 crops; NaN rejection and class
\* balancing on or off; the caller passes a list object holding no, one or
\* two predicates, and passes the same object again to build a second
\* pipeline once the first is exhausted.
InitCaller ==
  \E nan \in {"None", "avoid"}, bal \in BOOLEAN, labels \in {"checker", "corner"},
     user \in {<<>>, <<"user_label_one">>,
               <<"user_first_is_first_row", "user_label_one">>} :
    InitState([ArgsBase EXCEPT !.manage_nan_values = nan,
                               !.balance_classes_distribution = bal,
                               !.classes_entropy_threshold = Rat(1, 100)],
              <<Img(4, 5, 1, labels, <<>>), Img(4, 5, 1, labels, <<>>)>>,
              user)

SpecCaller == InitCaller /\ [][NextRuns]_vars

BuiltInFilters == {"has_no_nans", "balance_classes_entropy"}

Occurrences(seq, x) == Cardinality({i \in 1..Len(seq) : seq[i] = x})

\* C25 as stated: after any number of constructions passing the same list
\* object, the caller's list holds only the caller's predicates, and the
\* filter chain of each pipeline holds each built-in filter at most once.
C25_CallerListUnchanged ==
  /\ \A i \in 1..Len(callerFilters) : callerFilters[i] \notin BuiltInFilters
  /\ pc \in {"configured", "streaming", "exhausted"} =>
       \A f \in BuiltInFilters : Occurrences(self.additionnal_filters, f) <= 1

----------------------------------------------------------------------------
(* Filtering before transforming *)

\* the crops transformed so far and still in the pipeline or delivered
NbTransformed ==
  Cardinality({i \in 1..Len(inflight) : inflight[i].done}) + Len(batchbuf)
  + SumOver(DOMAIN prefetch, [b \in DOMAIN prefetch |-> Len(prefetch[b])])
  + NbEmitted

\* C23: every crop handed to the transform stage is accepted by every
\* predicate of the filter chain; a crop the chain rejected is not among the
\* crops in the transform stage, in a batch or delivered; and the generator
\* has issued exactly one seed pair per transformed crop.
C23_RejectedNeverTransformed ==
  pc = "streaming" =>
    /\ \A e \in PastFilter :
         \A i \in 1..Len(self.additionnal_filters) :
           ApplyFilter(self.additionnal_filters[i], self, e.crop)
    /\ (lastFilter.valid /\ ~lastFilter.accepted) =>
         lastFilter.crop \notin {e.crop : e \in PastFilter}
    /\ ~producerDone => rngCount = NbTransformed

\* a crop has just been rejected, after another one was transformed and
\* delivered
C23_Witness ==
  /\ pc = "streaming"
  /\ lastFilter.valid
  /\ ~lastFilter.accepted
  /\ rngCount >= 1
  /\ Emitted # {}

----------------------------------------------------------------------------
(* The final prefetch buffer *)

\* the steps of the tf.data runtime threads that fill the pipeline
Producer ==
  \/ InterleaveOpen
  \/ InterleaveNext
  \/ ImageTransform
  \/ BatchPull
  \/ EndOfInput

\* Three 2x2 raw/reference pairs of one crop each, read once in order by
\* two reader threads, in batches of 1 or 2.
InitFair ==
  \E bs \in 1..2 :
    InitState([ArgsBase EXCEPT !.filelist_raw_data = RawFiles(3),
                               !.filelist_reference_data = RefFiles(3),
                               !.max_patches_per_image = 1,
                               !.batch_size = bs,
                               !.num_reader_threads = 2],
              [k \in 1..6 |-> Img(2, 2, 1, "checker", <<>>)],
              <<>>)

\* That stream with the scheduling of the runtime: its worker threads run
\* whenever they have something to do, and the iterating caller takes every
\* batch that is ready and notices the end of the dataset.
SpecFair ==
  /\ InitFair
  /\ [][Next]_vars
  /\ WF_vars(Construct)
  /\ WF_vars(Producer)
  /\ WF_vars(Consume)
  /\ WF_vars(Finish)

\* C22: the number of batches produced and not yet consumed never exceeds
\* the capacity of the final prefetch buffer; a full buffer is always emptied
\* by the consumer, so the suspended producer resumes, and a consumer waiting
\* on an empty buffer always gets a batch or the end of the stream.
C22_PrefetchBounded ==
  /\ [](Len(prefetch) <= MaxPrefetch)
  /\ (pc = "streaming" /\ Len(prefetch) = MaxPrefetch)
       ~> (Len(prefetch) < MaxPrefetch \/ pc # "streaming")
  /\ (pc = "streaming" /\ prefetch = <<>>)
       ~> (prefetch # <<>> \/ pc # "streaming")

\* the buffer is full while a transformed crop waits for the batch stage,
\* after the consumer took a first batch
C22_Witness ==
  /\ pc = "streaming"
  /\ Len(prefetch) = MaxPrefetch
  /\ Len(out) >= 1
  /\ inflight # <<>>
  /\ inflight[1].done

----------------------------------------------------------------------------
(* End-to-end scenario *)

\* Four raw/reference pairs of 64x64 pixels, patch_ratio_vs_input = 0.5
\* (patchSize 32), max_patches_per_image = 4, coverage factor 1.0, no
\* shuffling, field of view 0, no filter, batch_size = 2, one epoch; the
\* reader and the number of reader threads are free.
InitE2E ==
  \E reader \in {"opencv", "gdal", "rasterio"}, threads \in {1, 4} :
    InitState([ArgsBase EXCEPT !.filelist_raw_data = RawFiles(4),
                               !.filelist_reference_data = RefFiles(4),
                               !.patch_ratio_vs_input = Rat(1, 2),
                               !.max_patches_per_image = 4,
                               !.image_area_coverage_factor = Rat(1, 1),
                               !.batch_size = 2,
                               !.use_alternative_imread = reader,
                               !.num_reader_threads = threads],
              [k \in 1..8 |-> Img(64, 64, 1, "halves", <<>>)],
              <<>>)

SpecE2E == InitE2E /\ [][Next]_vars

\* C10: in the scenario the patch size and the grid stride are 32, the
\* regular grid plans one tile per image, and one epoch yields exactly
\* 2 batches, each of shape (2, 32, 32, raw_depth + reference_depth).
C10_EndToEnd ==
  /\ pc \in {"configured", "streaming", "exhausted"} =>
       (self.patchSize = 32 /\ Stride = 32)
  /\ \A i \in OpenSlots : slots[i].boxes = <<[top |-> 0, left |-> 0]>>
  /\ pc \notin {"error", "failed"}
  /\ Len(out) <= 2
  /\ \A b \in SeqToSet(out) :
       /\ Len(b) = 2
       /\ \A i \in 1..Len(b) :
            ShapeOf(b[i].result) =
              <<32, 32, self.single_image_raw_depth + self.single_image_reference_depth>>
  /\ pc = "exhausted" => Len(out) = 2

\* the scenario's stream, consumed to its end
C10_Witness ==
  /\ pc = "exhausted"
  /\ Len(out) = 2
  /\ rngCount = 4

====
